---- MODULE Spec2Model ----
(***************************************************************************)
(* The engine-analysis streaming pipeline of the chess front end:          *)
(*   - analysisArrowReducer   (features/chess/analysis-arrow-state.ts)     *)
(*   - mergeCandidateStockfishLines, startStream, stopStream               *)
(*                            (routes/_layout/analysis.tsx)                *)
(*   - emitBufferedEvents, openAuthenticatedSse  (features/chess/sse.ts)   *)
(*                                                                         *)
(* Nullable values (T | null) are sequences: <<>> is null, <<x>> is x.     *)
(***************************************************************************)
EXTENDS Integers, Sequences, FiniteSets, TLC

VARIABLES
    arrowState,      \* useReducer(analysisArrowReducer) state
    last,            \* history: the last operation applied and the state it was applied to
    candidateLines,  \* candidateStockfishLinesRef.current
    recorded,        \* history: per branch, the depth last stored for it in this session (SpecMerge); the tokens whose session an analysis_complete has ended (SpecSession)
    wire,            \* the decoder's input and output: a response body, what was read of it, `buffer` and the frames emitted (SpecDecoder); one block and its parse (SpecBlock)
    epoch,           \* activeStreamTokenRef.current
    streamRef,       \* streamRef.current: index into handles, 0 is null
    cepoch,          \* activeCommentaryStreamTokenRef.current
    commentaryStreamRef,  \* commentaryStreamRef.current: index into handles, 0 is null
    handles,         \* every transport openAuthenticatedSse has created, in order of creation
    commentary,      \* commentaryStatus, commentaryError, commentaryRawTextRef, commentaryStructured
    board,           \* the FEN input: parsedFen.normalizedFen and whether parsedFen.error is set
    stopped,         \* history: the tokens stopStream has dispatched stop_session with, those that some transport carries
    delivered        \* history: the number of complete frames the transports have read

appVars ==
    <<epoch, streamRef, cepoch, commentaryStreamRef, handles, commentary, board, stopped, delivered>>
vars == <<arrowState, last, candidateLines, recorded, wire, appVars>>

None == <<>>
Some(x) == <<x>>

\* The page as mounted: both counters 0, no transport, commentary idle.
CommentaryIdle == [status |-> "idle", error |-> None, rawText |-> "", structured |-> None]
AppInit ==
    /\ epoch = 0
    /\ streamRef = 0
    /\ cepoch = 0
    /\ commentaryStreamRef = 0
    /\ handles = <<>>
    /\ commentary = CommentaryIdle
    /\ board = [fen |-> "fenA", error |-> FALSE]
    /\ stopped = {}
    /\ delivered = 0

Min(a, b) == IF a < b THEN a ELSE b
Max(a, b) == IF a > b THEN a ELSE b

(***************************************************************************)
(* Bounds of the model.                                                    *)
(***************************************************************************)
MaxToken == 2       \* stream tokens 1..MaxToken are dispatched to the reducer
MaxLog == 2         \* the event log is explored up to this length
MaxMergeDepth == 3  \* merged reports carry depths 1..MaxMergeDepth
MaxSegments == 4    \* a response text is made of up to MaxSegments pieces

(***************************************************************************)
(* Engine payloads (StockfishStreamEvent).  depth stands for `depth` of a  *)
(* depth_update and `final_depth` of an analysis_complete.  Fields a       *)
(* variant does not have hold the placeholder "-" / 0 / <<>>.              *)
(***************************************************************************)
FenA == "fenA"
FenB == "fenB"
Fens == {FenA, FenB}
AnalysisIds == {"a1", "a2"}

\* src: ANALYSIS_MIN_DEPTH .. ANALYSIS_STEADY_TOP_N, COMMENTARY_REFRESH_DEPTH
ANALYSIS_MIN_DEPTH == 8
ANALYSIS_WARMUP_DEPTH_COUNT == 10
ANALYSIS_WARMUP_TOP_N == 5
ANALYSIS_STEADY_TOP_N == 5
COMMENTARY_REFRESH_DEPTH == 18
\* The multipv the stream URL asks the server for (streamUrl).
RequestedMultiPv == ANALYSIS_WARMUP_TOP_N

\* StockfishPVLine.  uci stands for arrow.uci; the other arrow fields
\* (from_square, to_square, color_slot) are carried along verbatim and left out.
PVLineEval(rank, uci, pv, san, cp, mate) ==
    [rank |-> rank, uci |-> uci, pv |-> pv, san |-> san, cp |-> cp, mate |-> mate]
PVLine(rank, uci, pv) == PVLineEval(rank, uci, pv, None, None, None)

DepthPayload(type, aid, fen, depth, lines) ==
    [type |-> type, analysis_id |-> Some(aid), fen |-> fen, depth |-> depth,
     multipv |-> IF type = "depth_update" THEN RequestedMultiPv ELSE 0,
     lines |-> lines, message |-> "-"]

ErrorPayload(aid, message) ==
    [type |-> "analysis_error", analysis_id |-> aid, fen |-> "-", depth |-> 0,
     multipv |-> 0, lines |-> <<>>, message |-> message]

\* An event of another type (a heartbeat, data JSON.parse throws on).
OtherPayload(type) ==
    [type |-> type, analysis_id |-> None, fen |-> "-", depth |-> 0,
     multipv |-> 0, lines |-> <<>>, message |-> "-"]

\* src: mapLineToBoardArrow
mapLineToBoardArrow(line) ==
    [rank |-> line.rank, uci |-> line.uci, cp |-> line.cp, mate |-> line.mate]

\* src: isDepthLikeEvent
isDepthLikeEvent(payload) ==
    payload.type = "depth_update" \/ payload.type = "analysis_complete"

\* src: depthOfEvent
depthOfEvent(payload) == payload.depth

\* lines.slice(0, n)
Slice0(s, n) == SubSeq(s, 1, Min(Len(s), Max(n, 0)))

\* A trim that uses the steady count at every depth.
trimLinesForStage_SteadyOnly(lines, depth, session) ==
    Slice0(lines, Max(1, session.steadyTopN))

\* src: trimLinesForStage
trimLinesForStage(lines, depth, session) ==
    LET warmupDepthLimit == session.minDepth + session.warmupDepthCount - 1
        topN == IF depth <= warmupDepthLimit THEN session.warmupTopN
                ELSE session.steadyTopN
    IN Slice0(lines, Max(1, topN))

\* src: createInitialAnalysisArrowState
createInitialAnalysisArrowState ==
    [status |-> "idle", session |-> None, snapshot |-> None, events |-> <<>>,
     lastError |-> None]

(***************************************************************************)
(* Reducer actions (AnalysisArrowAction).                                  *)
(***************************************************************************)
StartSessionAction(token, fen, cfg) ==
    [type |-> "start_session", streamToken |-> token, targetFen |-> fen, cfg |-> cfg]
StopSessionAction(token, nextStatus) ==
    [type |-> "stop_session", streamToken |-> token, nextStatus |-> nextStatus]
ResetBoardAction == [type |-> "reset_for_board_change"]
LocalErrorAction(message) == [type |-> "local_error", message |-> message]
IngestEventAction(token, payload) ==
    [type |-> "ingest_stream_event", streamToken |-> token, payload |-> payload]

\* A token test that is satisfied by any session.
SessionHasToken_AnySession(state, token) == state.session # None

\* The session token test that guards stop_session and ingest_stream_event.
SessionHasToken(state, token) ==
    state.session # None /\ state.session[1].streamToken = token

\* A reducer that never compares analysis ids.
AnalysisIdConflicts_Never(session, payload) == FALSE

\* ingest_stream_event: the payload is a depth-like event for the session's
\* position; does it conflict with the pinned analysis id?
AnalysisIdConflicts(session, payload) ==
    session.analysisId # None /\ payload.analysis_id # session.analysisId

\* A reducer whose error branch forgets to clear the snapshot.
IngestError_KeepsSnapshot(state, payload) ==
    [status |-> "closed", session |-> None, snapshot |-> state.snapshot,
     events |-> Append(state.events, payload),
     lastError |-> Some(payload.message)]

\* A reducer whose error branch records the message and keeps streaming.
IngestError_KeepsStreaming(state, payload) ==
    [state EXCEPT !.events = Append(@, payload),
                  !.lastError = Some(payload.message)]

\* What an analysis_error does to the state.
IngestError(state, payload) ==
    [status |-> "closed", session |-> None, snapshot |-> None,
     events |-> Append(state.events, payload),
     lastError |-> Some(payload.message)]

\* An analysis_complete that records the snapshot and keeps the session.
CompletedState_KeepsSession(state, snapshot, trimmedPayload) ==
    [status |-> "streaming", session |-> state.session, snapshot |-> Some(snapshot),
     events |-> Append(state.events, trimmedPayload), lastError |-> None]

\* An analysis_complete that drops the session and leaves the status.
CompletedState_StillStreaming(state, snapshot, trimmedPayload) ==
    [status |-> state.status, session |-> None, snapshot |-> Some(snapshot),
     events |-> Append(state.events, trimmedPayload), lastError |-> None]

\* What an accepted analysis_complete returns.
CompletedState(state, snapshot, trimmedPayload) ==
    [status |-> "closed", session |-> None, snapshot |-> Some(snapshot),
     events |-> Append(state.events, trimmedPayload), lastError |-> None]

\* A reducer that keeps the snapshot it has when the event is shallower.
ReplaceSnapshot_KeepsDeeper(previous, snapshot) ==
    IF previous # None /\ previous[1].depth > snapshot.depth THEN previous
    ELSE Some(snapshot)

\* The snapshot field of the state returned for an accepted depth_update:
\* the new snapshot, whatever the state held.
ReplaceSnapshot(previous, snapshot) == Some(snapshot)

\* What an accepted depth-like event does to the state.
IngestAccepted(state, payload) ==
    LET session == state.session[1]
        analysisId == IF session.analysisId # None THEN session.analysisId
                      ELSE payload.analysis_id
        depth == depthOfEvent(payload)
        trimmedLines == trimLinesForStage(payload.lines, depth, session)
        trimmedPayload ==
            IF payload.type = "depth_update"
            THEN [payload EXCEPT !.lines = trimmedLines, !.multipv = Len(trimmedLines)]
            ELSE [payload EXCEPT !.lines = trimmedLines]
        snapshot == [targetFen |-> payload.fen, analysisId |-> analysisId[1],
                     depth |-> depth,
                     arrows |-> [i \in 1..Len(trimmedLines) |->
                                    mapLineToBoardArrow(trimmedLines[i])]]
    IN IF payload.type = "analysis_complete"
       THEN CompletedState(state, snapshot, trimmedPayload)
       ELSE [status |-> "streaming",
             session |-> Some([session EXCEPT !.analysisId = analysisId]),
             snapshot |-> ReplaceSnapshot(state.snapshot, snapshot),
             events |-> Append(state.events, trimmedPayload), lastError |-> None]

\* A reducer without the target position test.
FenMatches_Always(session, payload) == TRUE

\* Whether a depth-like payload names the session's target position.
FenMatches(session, payload) == payload.fen = session.targetFen

\* src: analysisArrowReducer, case "ingest_stream_event"
ReduceIngest(state, action) ==
    IF ~SessionHasToken(state, action.streamToken) THEN state
    ELSE LET payload == action.payload
             session == state.session[1]
         IN IF payload.type = "analysis_error" THEN IngestError(state, payload)
            ELSE IF ~isDepthLikeEvent(payload) THEN state
            ELSE IF ~FenMatches(session, payload) THEN state
            ELSE IF AnalysisIdConflicts(session, payload) THEN state
            ELSE IngestAccepted(state, payload)

\* src: analysisArrowReducer, the session of case "start_session"
SessionOf(action) ==
    [streamToken |-> action.streamToken,
     targetFen |-> action.targetFen,
     analysisId |-> None,
     minDepth |-> action.cfg.minDepth,
     warmupDepthCount |-> action.cfg.warmupDepthCount,
     warmupTopN |-> action.cfg.warmupTopN,
     steadyTopN |-> action.cfg.steadyTopN]

\* A start_session that keeps what the state held.
StartSession_KeepsResults(state, action) ==
    [state EXCEPT !.status = "streaming", !.session = Some(SessionOf(action))]

\* src: analysisArrowReducer, case "start_session"
StartSession(state, action) ==
    [status |-> "streaming", session |-> Some(SessionOf(action)),
     snapshot |-> None, events |-> <<>>, lastError |-> None]

\* src: analysisArrowReducer
analysisArrowReducer(state, action) ==
    CASE action.type = "start_session" -> StartSession(state, action)
      [] action.type = "stop_session" ->
            IF ~SessionHasToken(state, action.streamToken) THEN state
            ELSE [state EXCEPT !.status = action.nextStatus, !.session = None]
      [] action.type = "reset_for_board_change" -> createInitialAnalysisArrowState
      [] action.type = "local_error" ->
            [status |-> "closed", session |-> None, snapshot |-> None,
             events |-> <<>>, lastError |-> Some(action.message)]
      [] action.type = "ingest_stream_event" -> ReduceIngest(state, action)
      [] OTHER -> state

(***************************************************************************)
(* Candidate line merger (routes/_layout/analysis.tsx).                    *)
(***************************************************************************)
\* src: .slice(0, 10) of mergeCandidateStockfishLines
CandidateCap == 10
\* src: .slice(0, 8) of mergeCandidateStockfishLines
PvCap == 8

\* String.prototype.toLowerCase on the move strings of the model.
Lower(s) ==
    CASE s = "E2E4" -> "e2e4"
      [] s = "D2D4" -> "d2d4"
      [] s = "JSON" -> "json"
      [] OTHER -> s

\* src: formatEvalLabel.  The label text is kept as its parts:
\* <<"M", sign, n>> for `M+3`, <<"cp", sign, whole, hundredths>> for `+1.50`.
formatEvalLabel(cp, mate) ==
    IF mate # None
    THEN <<"M", IF mate[1] > 0 THEN "+" ELSE "", mate[1]>>
    ELSE IF cp # None
    THEN LET a == IF cp[1] < 0 THEN -cp[1] ELSE cp[1]
         IN <<"cp", IF cp[1] > 0 THEN "+" ELSE IF cp[1] < 0 THEN "-" ELSE "",
              a \div 100, a % 100>>
    ELSE <<"n/a">>

\* src: stockfishDepthOfEvent
stockfishDepthOfEvent(payload) == payload.depth

\* src: isStockfishDepthLikeEvent
isStockfishDepthLikeEvent(payload) ==
    payload.type = "depth_update" \/ payload.type = "analysis_complete"

\* (line.pv[0] ?? line.arrow.uci ?? "").toLowerCase()
BranchOfLine(line) == Lower(IF Len(line.pv) > 0 THEN line.pv[1] ELSE line.uci)

\* The candidate built from one reported line.
CandidateOfLine(line, depth) ==
    LET moves == IF Len(line.pv) > 0 THEN line.pv ELSE <<line.uci>>
    IN [branchUci |-> BranchOfLine(line),
        firstMoveSan |-> line.san,
        depth |-> depth,
        rank |-> line.rank,
        evalLabel |-> formatEvalLabel(line.cp, line.mate),
        pvUci |-> Slice0([i \in 1..Len(moves) |-> Lower(moves[i])], PvCap)]

\* A merge loop that lets the newest report win whatever its depth.
ShouldReplace_NewestWins(existing, depth, rank) ==
    depth # existing.depth \/ rank < existing.rank

\* A merge loop in which a report as deep as the stored entry always wins.
ShouldReplace_OnTie(existing, depth, rank) == depth >= existing.depth

\* The replacement test of the merge loop, for a branch already stored.
ShouldReplace(existing, depth, rank) ==
    depth > existing.depth \/ (depth = existing.depth /\ rank < existing.rank)

\* The Map byBranch is the sequence of its values in insertion order.
IndexOfBranch(byBranch, branchUci) ==
    LET hits == {i \in 1..Len(byBranch) : byBranch[i].branchUci = branchUci}
    IN IF hits = {} THEN 0 ELSE CHOOSE i \in hits : TRUE

\* byBranch.set(branchUci, candidate): a stored key keeps its place.
MapSet(byBranch, candidate) ==
    LET i == IndexOfBranch(byBranch, candidate.branchUci)
    IN IF i = 0 THEN Append(byBranch, candidate)
       ELSE [byBranch EXCEPT ![i] = candidate]

\* The loop over payload.lines.
RECURSIVE MergeLines(_, _, _)
MergeLines(byBranch, lines, depth) ==
    IF lines = <<>> THEN byBranch
    ELSE LET line == Head(lines)
             branchUci == BranchOfLine(line)
             i == IndexOfBranch(byBranch, branchUci)
             next ==
                IF branchUci = "" THEN byBranch
                ELSE IF i = 0 \/ ShouldReplace(byBranch[i], depth, line.rank)
                THEN MapSet(byBranch, CandidateOfLine(line, depth))
                ELSE byBranch
         IN MergeLines(next, Tail(lines), depth)

\* A comparator that looks at the rank only.
SortsBefore_RankOnly(a, b) == a.rank < b.rank


\* The comparator (a, b) => b.depth - a.depth || a.rank - b.rank is negative.
SortsBefore(a, b) == a.depth > b.depth \/ (a.depth = b.depth /\ a.rank < b.rank)

\* Array.prototype.sort is stable: x goes before the first element it sorts before.
InsertSorted(sorted, x) ==
    LET later == {i \in 1..Len(sorted) : SortsBefore(x, sorted[i])}
        at == IF later = {} THEN Len(sorted) + 1
              ELSE CHOOSE i \in later : \A j \in later : i <= j
    IN SubSeq(sorted, 1, at - 1) \o <<x>> \o SubSeq(sorted, at, Len(sorted))

RECURSIVE SortCandidates(_)
SortCandidates(seq) ==
    IF seq = <<>> THEN <<>>
    ELSE InsertSorted(SortCandidates(SubSeq(seq, 1, Len(seq) - 1)), seq[Len(seq)])

\* src: mergeCandidateStockfishLines
mergeCandidateStockfishLines(current, payload) ==
    Slice0(SortCandidates(MergeLines(current, payload.lines,
                                     stockfishDepthOfEvent(payload))),
           CandidateCap)

(***************************************************************************)
(* Frame decoder (features/chess/sse.ts).  A string is the sequence of its *)
(* characters, each a one-character string; CR and LF are "\r" and "\n".   *)
(***************************************************************************)
CR == "\r"
LF == "\n"
DataPrefix == <<"d", "a", "t", "a", ":">>
EventPrefix == <<"e", "v", "e", "n", "t", ":">>
MessageName == <<"m", "e", "s", "s", "a", "g", "e">>

\* The element of a one-element set.  Only({F(x) : x \in {e}}) is F(e) with
\* e computed once, however often F uses it.
Only(S) == CHOOSE x \in S : TRUE

\* String.prototype.startsWith
StartsWith(s, prefix) ==
    Len(s) >= Len(prefix) /\ SubSeq(s, 1, Len(prefix)) = prefix

\* String.prototype.slice(n)
SliceFrom(s, n) == SubSeq(s, n + 1, Len(s))

\* String.prototype.trim: white space and line terminators go from both ends.
IsSpace(c) == c \in {" ", "\t", CR, LF}
RECURSIVE TrimStart(_)
TrimStart(s) == IF s # <<>> /\ IsSpace(Head(s)) THEN TrimStart(Tail(s)) ELSE s
RECURSIVE TrimEnd(_)
TrimEnd(s) ==
    IF s # <<>> /\ IsSpace(s[Len(s)]) THEN TrimEnd(SubSeq(s, 1, Len(s) - 1)) ELSE s
Trim(s) == TrimEnd(TrimStart(s))

\* block.split("\n")
RECURSIVE SplitLines(_)
SplitLines(s) ==
    LET at == {i \in 1..Len(s) : s[i] = LF}
    IN IF at = {} THEN <<s>>
       ELSE Only({<<SubSeq(s, 1, i - 1)>>
                      \o Only({SplitLines(rest) : rest \in {SliceFrom(s, i)}}) :
                  i \in {CHOOSE k \in at : \A j \in at : k <= j}})

\* dataLines.join("\n")
RECURSIVE JoinLines(_)
JoinLines(ls) ==
    IF ls = <<>> THEN <<>>
    ELSE IF Len(ls) = 1 THEN ls[1]
    ELSE ls[1] \o <<LF>> \o JoinLines(Tail(ls))

\* A parser that takes every line that is not a comment or an event line for data.
ParseLine_AnyLineIsData(acc, line) ==
    IF line = <<>> \/ StartsWith(line, <<":">>) THEN acc
    ELSE IF StartsWith(line, EventPrefix)
    THEN [acc EXCEPT !.eventName = Trim(SliceFrom(line, Len(EventPrefix)))]
    ELSE [acc EXCEPT !.dataLines = Append(@, line)]


\* The loop body of parseSseEventBlock: acc is [eventName, dataLines].
ParseLine(acc, line) ==
    IF line = <<>> \/ StartsWith(line, <<":">>) THEN acc
    ELSE IF StartsWith(line, EventPrefix)
    THEN LET name == Trim(SliceFrom(line, Len(EventPrefix)))
         IN [acc EXCEPT !.eventName = IF name = <<>> THEN MessageName ELSE name]
    ELSE IF StartsWith(line, DataPrefix)
    THEN LET value == SliceFrom(line, Len(DataPrefix))
             stripped == IF StartsWith(value, <<" ">>) THEN SliceFrom(value, 1) ELSE value
         IN [acc EXCEPT !.dataLines = Append(@, stripped)]
    ELSE acc

RECURSIVE ParseLines(_, _)
ParseLines(acc, lines) ==
    IF lines = <<>> THEN acc ELSE ParseLines(ParseLine(acc, Head(lines)), Tail(lines))

\* src: parseSseEventBlock.  None is null.
parseSseEventBlock(block) ==
    LET acc == ParseLines([eventName |-> MessageName, dataLines |-> <<>>],
                          SplitLines(block))
    IN IF acc.dataLines = <<>> THEN None
       ELSE Some([eventName |-> acc.eventName, eventData |-> JoinLines(acc.dataLines)])

\* buffer.replace(/\r\n/g, "\n"): one pass, left to right, over the input.
RECURSIVE ReplaceCrLf(_)
ReplaceCrLf(s) ==
    IF s = <<>> THEN <<>>
    ELSE IF Len(s) >= 2 /\ s[1] = CR /\ s[2] = LF
    THEN <<LF>> \o ReplaceCrLf(SliceFrom(s, 2))
    ELSE <<s[1]>> \o ReplaceCrLf(Tail(s))

\* working.indexOf("\n\n"), 1-based; 0 stands for -1.
IndexOfBlankLine(s) ==
    LET at == {i \in 1..(Len(s) - 1) : s[i] = LF /\ s[i + 1] = LF}
    IN IF at = {} THEN 0 ELSE CHOOSE k \in at : \A j \in at : k <= j

\* The while loop of emitBufferedEvents: the frames handed to onEvent, in
\* order, and the text left over.
RECURSIVE EmitLoop(_, _)
EmitLoop(working, frames) ==
    LET delimiterIndex == IndexOfBlankLine(working)
    IN IF delimiterIndex = 0 THEN [remainder |-> working, frames |-> frames]
       ELSE LET rawBlock == SubSeq(working, 1, delimiterIndex - 1)
                parsed == parseSseEventBlock(rawBlock)
            IN EmitLoop(SliceFrom(working, delimiterIndex + 1),
                        IF parsed = None THEN frames ELSE Append(frames, parsed[1]))

\* src: emitBufferedEvents
emitBufferedEvents(buffer) == EmitLoop(ReplaceCrLf(buffer), <<>>)

(***************************************************************************)
(* SpecDecoder: one response body, read in chunks cut anywhere.            *)
(***************************************************************************)
Segments ==
    {DataPrefix \o <<"x">>, DataPrefix \o <<" ", "y">>, EventPrefix \o <<"e", " ">>,
     <<":", "c">>, <<LF>>, <<CR>>, <<CR, LF>>}

RECURSIVE Concat(_)
Concat(ss) == IF ss = <<>> THEN <<>> ELSE Head(ss) \o Concat(Tail(ss))

\* Streams of two records: two data lines with a separator between them
\* and a blank line at the end.
TwoRecordTexts ==
    {Concat(<<first, separator, second, <<LF, LF>>>>) :
        first \in {DataPrefix \o <<"x">>},
        second \in {DataPrefix \o <<" ", "y">>},
        separator \in {<<LF, LF>>, <<CR, LF, CR, LF>>, <<LF, CR, LF>>,
                       <<LF, CR, CR, LF>>, <<LF>>}}

Texts ==
    {Concat(ss) : ss \in UNION {[1..n -> Segments] : n \in 1..MaxSegments}}
    \cup TwoRecordTexts

NoWire == [text |-> <<>>, read |-> 0, buffer |-> <<>>, emitted |-> <<>>, ended |-> FALSE]

InitDecoder ==
    /\ AppInit
    /\ arrowState = createInitialAnalysisArrowState
    /\ candidateLines = <<>>
    /\ recorded = <<>>
    /\ last = [op |-> [type |-> "none"]]
    /\ \E text \in Texts : wire = [NoWire EXCEPT !.text = text]

\* run: buffer += decoder.decode(value); buffer = emitBufferedEvents(buffer, onEvent)
ReadChunk ==
    \E n \in 1..(Len(wire.text) - wire.read) :
        LET value == SubSeq(wire.text, wire.read + 1, wire.read + n)
            out == emitBufferedEvents(wire.buffer \o value)
        IN /\ wire' = [wire EXCEPT !.read = @ + n,
                                   !.buffer = out.remainder,
                                   !.emitted = @ \o out.frames]
           /\ last' = [op |-> [type |-> "chunk"]]
           /\ UNCHANGED <<arrowState, candidateLines, recorded, appVars>>

\* A run() that hands what is left in the buffer to onEvent when the body
\* ends.
AtEndOfBody_Flushes(w) ==
    LET parsed == parseSseEventBlock(ReplaceCrLf(w.buffer))
    IN [w EXCEPT !.ended = TRUE,
                 !.emitted = IF parsed = None THEN @ ELSE Append(@, parsed[1])]

\* run: if (done) break; the loop is left with `buffer` as it is and
\* onClose follows.
AtEndOfBody(w) == [w EXCEPT !.ended = TRUE]

\* reader.read() reports the end of the body.
EndOfBody ==
    /\ wire.read = Len(wire.text)
    /\ ~wire.ended
    /\ wire' = AtEndOfBody(wire)
    /\ last' = [op |-> [type |-> "done"], pre |-> wire]
    /\ UNCHANGED <<arrowState, candidateLines, recorded, appVars>>

NextDecoder ==
    \/ ReadChunk
    \/ EndOfBody

SpecDecoder == InitDecoder /\ [][NextDecoder]_vars

(***************************************************************************)
(* SpecBlock: parseSseEventBlock applied to one record block.  A block is  *)
(* one to three lines joined by "\n", each line drawn from a menu of data  *)
(* lines, an event line, a comment, unprefixed text and the empty line.    *)
(***************************************************************************)
MaxBlockLines == 3

BlockLineMenu ==
    {DataPrefix \o <<"x">>, DataPrefix \o <<" ", "y">>, DataPrefix,
     EventPrefix \o <<"e">>, <<":", "c">>, <<"x">>, <<" ">> \o DataPrefix \o <<"x">>,
     <<>>}

Blocks == UNION {[1..n -> BlockLineMenu] : n \in 1..MaxBlockLines}

InitBlock ==
    /\ AppInit
    /\ arrowState = createInitialAnalysisArrowState
    /\ candidateLines = <<>>
    /\ recorded = <<>>
    /\ last = [op |-> [type |-> "none"]]
    /\ \E ls \in Blocks : wire = [lines |-> ls, parsed |-> None, done |-> FALSE]

\* emitBufferedEvents: const parsed = parseSseEventBlock(rawBlock)
ParseBlock ==
    /\ ~wire.done
    /\ wire' = [wire EXCEPT !.parsed = parseSseEventBlock(JoinLines(wire.lines)),
                            !.done = TRUE]
    /\ last' = [op |-> [type |-> "parse"]]
    /\ UNCHANGED <<arrowState, candidateLines, recorded, appVars>>

NextBlock == ParseBlock

SpecBlock == InitBlock /\ [][NextBlock]_vars


(***************************************************************************)
(* Commentary extractor (routes/_layout/analysis.tsx).  A text is the      *)
(* sequence of its characters, except that a run of letters or digits      *)
(* that no rule of the extractor looks into ("position_plan_title",        *)
(* "Develop", "json", "18") is one element.  Punctuation, white space,     *)
(* quotes, backslashes and backticks are always single elements.           *)
(***************************************************************************)
QUOTE == "\""
BSL == "\\"
\* The backtick character, spelled out.
TICK == "backtick"
Fence == <<TICK, TICK, TICK>>
\* The three characters the source lists as a bullet separator, as one element.
MojibakeBullet == "a-circumflex euro cent"

\* The value JSON.parse returns: kind is the JavaScript type of the value,
\* an object holds its members in source order (a later duplicate key wins).
JsonNull == [kind |-> "null"]
JsonBool(b) == [kind |-> "boolean", val |-> b]
JsonNumber(n) == [kind |-> "number", val |-> n]
JsonString(s) == [kind |-> "string", val |-> s]
JsonArray(items) == [kind |-> "array", val |-> items]
JsonObject(members) == [kind |-> "object", val |-> members]
Undefined == [kind |-> "undefined"]

NumberTokens == {"0", "1", "5", "18"}

\* A SyntaxError of JSON.parse.
SyntaxError == [ok |-> FALSE]
Parsed(v, next) == [ok |-> TRUE, v |-> v, next |-> next]

RECURSIVE SkipWs(_, _)
SkipWs(t, i) == IF i <= Len(t) /\ IsSpace(t[i]) THEN SkipWs(t, i + 1) ELSE i

\* JSON string body from position i (after the opening quote): a backslash
\* takes the next character with it, a raw line break or tab is an error.
RECURSIVE JsonStringFrom(_, _, _)
JsonStringFrom(t, i, acc) ==
    IF i > Len(t) THEN SyntaxError
    ELSE IF t[i] = QUOTE THEN Parsed(JsonString(acc), i + 1)
    ELSE IF t[i] = BSL
         THEN IF i + 1 > Len(t) THEN SyntaxError
              ELSE IF t[i + 1] \in {QUOTE, BSL, "/"}
                   THEN JsonStringFrom(t, i + 2, Append(acc, t[i + 1]))
              ELSE IF t[i + 1] = "n" THEN JsonStringFrom(t, i + 2, Append(acc, LF))
              ELSE IF t[i + 1] = "t" THEN JsonStringFrom(t, i + 2, Append(acc, "\t"))
              ELSE IF t[i + 1] = "r" THEN JsonStringFrom(t, i + 2, Append(acc, CR))
              ELSE SyntaxError
    ELSE IF t[i] \in {LF, CR, "\t"} THEN SyntaxError
    ELSE JsonStringFrom(t, i + 1, Append(acc, t[i]))

RECURSIVE JsonValue(_, _)
RECURSIVE JsonMembers(_, _, _)
RECURSIVE JsonElements(_, _, _)

\* The key of a member, from position i.
JsonKey(t, i) ==
    LET k == SkipWs(t, i)
    IN IF k > Len(t) \/ t[k] # QUOTE THEN SyntaxError
       ELSE JsonStringFrom(t, k + 1, <<>>)

\* The colon and the value of a member, from position i.
JsonColonValue(t, i) ==
    LET c == SkipWs(t, i)
    IN IF c > Len(t) \/ t[c] # ":" THEN SyntaxError ELSE JsonValue(t, c + 1)

\* Members of an object from position i, where a key has to start.
JsonMembers(t, i, acc) ==
    Only({IF ~key.ok THEN SyntaxError
          ELSE Only({IF ~member.ok THEN SyntaxError
                     ELSE Only({IF e > Len(t) THEN SyntaxError
                                ELSE IF t[e] = ","
                                THEN JsonMembers(t, e + 1,
                                         Append(acc, <<key.v.val, member.v>>))
                                ELSE IF t[e] = "}"
                                THEN Parsed(JsonObject(
                                         Append(acc, <<key.v.val, member.v>>)), e + 1)
                                ELSE SyntaxError :
                                e \in {SkipWs(t, member.next)}}) :
                     member \in {JsonColonValue(t, key.next)}}) :
          key \in {JsonKey(t, i)}})

\* Elements of an array from position i, where a value has to start.
JsonElements(t, i, acc) ==
    Only({IF ~element.ok THEN SyntaxError
          ELSE Only({IF e > Len(t) THEN SyntaxError
                     ELSE IF t[e] = "," THEN JsonElements(t, e + 1, Append(acc, element.v))
                     ELSE IF t[e] = "]"
                     THEN Parsed(JsonArray(Append(acc, element.v)), e + 1)
                     ELSE SyntaxError :
                     e \in {SkipWs(t, element.next)}}) :
          element \in {JsonValue(t, i)}})

JsonValue(t, i) ==
    Only({IF s > Len(t) THEN SyntaxError
          ELSE IF t[s] = QUOTE THEN JsonStringFrom(t, s + 1, <<>>)
          ELSE IF t[s] = "{"
          THEN LET m == SkipWs(t, s + 1)
               IN IF m <= Len(t) /\ t[m] = "}" THEN Parsed(JsonObject(<<>>), m + 1)
                  ELSE JsonMembers(t, s + 1, <<>>)
          ELSE IF t[s] = "["
          THEN LET m == SkipWs(t, s + 1)
               IN IF m <= Len(t) /\ t[m] = "]" THEN Parsed(JsonArray(<<>>), m + 1)
                  ELSE JsonElements(t, s + 1, <<>>)
          ELSE IF t[s] = "null" THEN Parsed(JsonNull, s + 1)
          ELSE IF t[s] = "true" THEN Parsed(JsonBool(TRUE), s + 1)
          ELSE IF t[s] = "false" THEN Parsed(JsonBool(FALSE), s + 1)
          ELSE IF t[s] \in NumberTokens THEN Parsed(JsonNumber(t[s]), s + 1)
          ELSE SyntaxError :
          s \in {SkipWs(t, i)}})

\* JSON.parse(text): one value, white space around it, nothing else.
JSONparse(text) ==
    Only({Only({IF ~r.ok THEN SyntaxError
                ELSE IF SkipWs(t, r.next) <= Len(t) THEN SyntaxError
                ELSE r :
                r \in {JsonValue(t, 1)}}) :
          t \in {text}})

\* parsed.key: undefined for a missing key and for a value that is not an
\* object; the last member of that name for an object.
RECURSIVE GetMember(_, _, _)
GetMember(members, key, n) ==
    IF n = 0 THEN Undefined
    ELSE IF members[n][1] = key THEN members[n][2]
    ELSE GetMember(members, key, n - 1)

Get(value, key) ==
    IF value.kind = "object" THEN GetMember(value.val, <<key>>, Len(value.val))
    ELSE Undefined

\* src: sanitizeCommentaryText, both replace calls: every fence followed by
\* json goes first, then every fence that is left.
RemoveAt(s, pattern, index, st) ==
    IF index < st.resumeAt THEN st
    ELSE IF StartsWith(SliceFrom(s, index - 1), pattern)
    THEN [st EXCEPT !.resumeAt = index + Len(pattern)]
    ELSE [st EXCEPT !.kept = Append(@, s[index])]

\* The replacement over the positions lo..hi, left to right.
RECURSIVE RemoveRange(_, _, _, _, _)
RemoveRange(s, pattern, lo, hi, st) ==
    IF lo > hi THEN st
    ELSE IF lo = hi THEN RemoveAt(s, pattern, lo, st)
    ELSE LET mid == (lo + hi) \div 2
         IN Only({RemoveRange(s, pattern, mid + 1, hi, half) :
                  half \in {RemoveRange(s, pattern, lo, mid, st)}})

\* s.replace(pattern, "") with the g flag
RemoveAll(s, pattern) ==
    Only({RemoveRange(t, pattern, 1, Len(t), [kept |-> <<>>, resumeAt |-> 0]).kept :
          t \in {s}})

StripFenceMarkers(rawText) ==
    Only({Trim(stripped) :
          stripped \in {RemoveAll(RemoveAll(rawText, Fence \o <<"json">>), Fence)}})

\* src: sanitizeCommentaryText
sanitizeCommentaryText(rawText) ==
    Only({IF trimmed = <<>> THEN rawText
          ELSE IF ~StartsWith(trimmed, Fence) THEN StripFenceMarkers(rawText)
          ELSE Only({IF Len(lines) >= 3 /\ Trim(lines[Len(lines)]) = Fence
                     THEN Only({Trim(inner) :
                                inner \in {JoinLines(SubSeq(lines, 2, Len(lines) - 1))}})
                     ELSE StripFenceMarkers(rawText) :
                     lines \in {SplitLines(trimmed)}}) :
          trimmed \in {Trim(rawText)}})

\* A scanner that counts every brace, inside string values too.
ScanChar_BracesInStrings(text, index, st) ==
    LET char == text[index]
    IN IF char = "{"
       THEN [st EXCEPT !.startIndex = IF st.depth = 0 THEN index ELSE @,
                       !.depth = @ + 1]
       ELSE IF char = "}" /\ st.depth > 0
       THEN IF st.depth = 1 /\ st.startIndex >= 1
            THEN [st EXCEPT !.depth = 0, !.startIndex = 0,
                            !.candidates =
                                Append(@, Trim(SubSeq(text, st.startIndex, index)))]
            ELSE [st EXCEPT !.depth = @ - 1]
       ELSE st

\* src: extractJsonObjectCandidates, one pass of the for loop.  startIndex 0
\* stands for -1.
ScanChar(text, index, st) ==
    LET char == text[index]
    IN IF st.inString
       THEN IF st.escaped THEN [st EXCEPT !.escaped = FALSE]
            ELSE IF char = BSL THEN [st EXCEPT !.escaped = TRUE]
            ELSE IF char = QUOTE THEN [st EXCEPT !.inString = FALSE]
            ELSE st
       ELSE IF char = QUOTE THEN [st EXCEPT !.inString = TRUE]
       ELSE IF char = "{"
       THEN [st EXCEPT !.startIndex = IF st.depth = 0 THEN index ELSE @,
                       !.depth = @ + 1]
       ELSE IF char = "}" /\ st.depth > 0
       THEN IF st.depth = 1 /\ st.startIndex >= 1
            THEN [st EXCEPT !.depth = 0, !.startIndex = 0,
                            !.candidates =
                                Append(@, Trim(SubSeq(text, st.startIndex, index)))]
            ELSE [st EXCEPT !.depth = @ - 1]
       ELSE st

\* The for loop over the positions lo..hi: the state after lo..mid is the
\* state the loop over mid+1..hi starts from.
RECURSIVE ScanChars(_, _, _, _)
ScanChars(text, lo, hi, st) ==
    IF lo > hi THEN st
    ELSE IF lo = hi THEN ScanChar(text, lo, st)
    ELSE LET mid == (lo + hi) \div 2
         IN Only({ScanChars(text, mid + 1, hi, half) :
                  half \in {ScanChars(text, lo, mid, st)}})

\* src: extractJsonObjectCandidates
extractJsonObjectCandidates(text) ==
    ScanChars(text, 1, Len(text),
              [depth |-> 0, startIndex |-> 0, inString |-> FALSE,
               escaped |-> FALSE, candidates |-> <<>>]).candidates

\* src: normalizeCandidate
normalizeCandidate(candidate) ==
    LET trimmed == Trim(candidate)
    IN IF Len(trimmed) >= 2 /\ Lower(trimmed[1]) = "json" /\ trimmed[2] = LF
       THEN Trim(SliceFrom(trimmed, 2))
       ELSE trimmed

\* src: repairCandidate, candidate.replace(/,\s*([}\]])/g, "$1"), at one
\* position: a comma that only white space separates from a closing brace or
\* bracket goes, and the white space with it.
RepairAt(candidate, index, st) ==
    LET closer == SkipWs(candidate, index + 1)
    IN IF index < st.resumeAt THEN st
       ELSE IF candidate[index] = "," /\ closer <= Len(candidate)
                                      /\ candidate[closer] \in {"}", "]"}
       THEN [st EXCEPT !.resumeAt = closer]
       ELSE [st EXCEPT !.kept = Append(@, candidate[index])]

\* The replacement over the positions lo..hi, left to right.
RECURSIVE RepairRange(_, _, _, _)
RepairRange(candidate, lo, hi, st) ==
    IF lo > hi THEN st
    ELSE IF lo = hi THEN RepairAt(candidate, lo, st)
    ELSE LET mid == (lo + hi) \div 2
         IN Only({RepairRange(candidate, mid + 1, hi, half) :
                  half \in {RepairRange(candidate, lo, mid, st)}})

\* src: repairCandidate
repairCandidate(candidate) ==
    Only({RepairRange(c, 1, Len(c), [kept |-> <<>>, resumeAt |-> 0]).kept :
          c \in {candidate}})

\* src: pushCandidate
pushCandidate(candidates, candidate) ==
    LET normalized == normalizeCandidate(candidate)
    IN IF normalized = <<>> \/ \E i \in 1..Len(candidates) : candidates[i] = normalized
       THEN candidates
       ELSE Append(candidates, normalized)

RECURSIVE PushAll(_, _)
PushAll(candidates, more) ==
    IF more = <<>> THEN candidates
    ELSE PushAll(pushCandidate(candidates, Head(more)), Tail(more))

\* pushCandidate(clean); extractJsonObjectCandidates(clean).forEach(pushCandidate)
CandidatesOf(clean) ==
    Only({PushAll(pushCandidate(<<>>, clean), found) :
          found \in {extractJsonObjectCandidates(clean)}})

\* src: asText
asText(value) ==
    IF value.kind # "string" THEN None
    ELSE IF Trim(value.val) = <<>> THEN None
    ELSE Some(Trim(value.val))

\* values.map(asText).filter(Boolean)
RECURSIVE NonEmptyTexts(_)
NonEmptyTexts(values) ==
    IF values = <<>> THEN <<>>
    ELSE LET text == asText(Head(values))
         IN (IF text = None THEN <<>> ELSE <<text[1]>>) \o NonEmptyTexts(Tail(values))

\* value.split(/\n|;|(the bullet)|\s-\s/)
RECURSIVE SplitBullets(_, _)
SplitBullets(s, piece) ==
    IF s = <<>> THEN <<piece>>
    ELSE IF Head(s) \in {LF, ";", MojibakeBullet}
    THEN <<piece>> \o SplitBullets(Tail(s), <<>>)
    ELSE IF Len(s) >= 3 /\ IsSpace(s[1]) /\ s[2] = "-" /\ IsSpace(s[3])
    THEN <<piece>> \o SplitBullets(SliceFrom(s, 3), <<>>)
    ELSE SplitBullets(Tail(s), Append(piece, Head(s)))

\* entries.map((entry) => entry.trim()).filter((entry) => entry.length > 0)
RECURSIVE TrimmedNonEmpty(_)
TrimmedNonEmpty(pieces) ==
    IF pieces = <<>> THEN <<>>
    ELSE (IF Trim(Head(pieces)) = <<>> THEN <<>> ELSE <<Trim(Head(pieces))>>)
         \o TrimmedNonEmpty(Tail(pieces))

\* A reading of the bullets that is content with one bullet and repeats it.
asPlanBullets_OneBulletEnough(value) ==
    LET entries == IF value.kind = "array" THEN NonEmptyTexts(value.val)
                   ELSE IF value.kind = "string"
                   THEN TrimmedNonEmpty(SplitBullets(value.val, <<>>))
                   ELSE <<>>
    IN IF Len(entries) < 1 THEN None
       ELSE Some(<<entries[1], entries[Min(2, Len(entries))]>>)

\* src: asPlanBullets
asPlanBullets(value) ==
    IF value.kind = "array"
    THEN LET entries == Slice0(NonEmptyTexts(value.val), 2)
         IN IF Len(entries) < 2 THEN None ELSE Some(<<entries[1], entries[2]>>)
    ELSE IF value.kind = "string"
    THEN LET entries == Slice0(TrimmedNonEmpty(SplitBullets(value.val, <<>>)), 2)
         IN IF Len(entries) < 2 THEN None ELSE Some(<<entries[1], entries[2]>>)
    ELSE None

\* `L${String(index + 1).padStart(2, "0")}` for the positions a list can have here.
DefaultLineId(position) == <<<<"L01">>, <<"L02">>, <<"L03">>, <<"L04">>>>[position]

\* playbackRaw.map(trim and lower case, "" for a non-string).filter(non-empty)
RECURSIVE PlaybackMoves(_)
PlaybackMoves(values) ==
    IF values = <<>> THEN <<>>
    ELSE LET move == IF Head(values).kind = "string"
                     THEN [i \in 1..Len(Trim(Head(values).val)) |->
                              Lower(Trim(Head(values).val)[i])]
                     ELSE <<>>
         IN (IF move = <<>> THEN <<>> ELSE <<move>>) \o PlaybackMoves(Tail(values))

\* ideasRaw.map((idea, index) => ...).filter(Boolean)
RECURSIVE ConcreteIdeas(_, _)
ConcreteIdeas(ideasRaw, position) ==
    IF position > Len(ideasRaw) THEN <<>>
    ELSE LET idea == ideasRaw[position]
             ideaTitle == asText(Get(idea, "title"))
             ideaDescription == asText(Get(idea, "description"))
             givenId == asText(Get(idea, "selected_line_id"))
             selectedLineId == IF givenId = None THEN DefaultLineId(position) ELSE givenId[1]
             playbackRaw == IF Get(idea, "playback_pv_uci").kind = "array"
                            THEN Get(idea, "playback_pv_uci").val ELSE <<>>
             playback == PlaybackMoves(playbackRaw)
         IN (IF ideaTitle = None \/ ideaDescription = None \/ playback = <<>>
             THEN <<>>
             ELSE <<[title |-> ideaTitle[1], description |-> ideaDescription[1],
                     selected_line_id |-> selectedLineId, playback_pv_uci |-> playback]>>)
            \o ConcreteIdeas(ideasRaw, position + 1)

\* What one pass of the loop body ends with.
Continue == [outcome |-> "continue", plan |-> None]
Throw == [outcome |-> "throw", plan |-> None]
Return(plan) == [outcome |-> "record", plan |-> Some(plan)]
ReturnNull == [outcome |-> "null", plan |-> None]

\* The inner try: JSON.parse(candidate), and on a SyntaxError
\* JSON.parse(repairCandidate(candidate)).
ParseWithRepair(candidate) ==
    Only({IF first.ok THEN first ELSE JSONparse(repairCandidate(candidate)) :
          first \in {JSONparse(candidate)}})

\* The body of the outer try for one candidate.  Reading a property of null
\* throws a TypeError; every other parsed value has properties.
TryCandidate(candidate) ==
    Only({
       IF ~result.ok THEN Throw
       ELSE IF result.v.kind = "null" THEN Throw
       ELSE LET parsed == result.v
                title == asText(Get(parsed, "position_plan_title"))
                advantageSummary == asText(Get(parsed, "advantage_summary"))
                bestMoveSan == asText(Get(parsed, "best_move_san"))
                bestMoveReason == asText(Get(parsed, "best_move_reason"))
                dangerToWatch == asText(Get(parsed, "danger_to_watch"))
                whitePlan == asPlanBullets(Get(parsed, "white_plan"))
                blackPlan == asPlanBullets(Get(parsed, "black_plan"))
                sideRaw == Get(parsed, "advantage_side")
                advantageSide ==
                    IF sideRaw.kind = "string"
                       /\ sideRaw.val \in {<<"white">>, <<"black">>, <<"equal">>, <<"unclear">>}
                    THEN sideRaw.val[1] ELSE "unclear"
                ideasRaw == IF Get(parsed, "concrete_ideas").kind = "array"
                            THEN Get(parsed, "concrete_ideas").val ELSE <<>>
            IN IF title = None \/ advantageSummary = None \/ bestMoveSan = None
                  \/ bestMoveReason = None \/ dangerToWatch = None
               THEN Continue
               ELSE IF whitePlan = None \/ blackPlan = None THEN Continue
               ELSE Return([position_plan_title |-> title[1],
                            advantage_side |-> advantageSide,
                            advantage_summary |-> advantageSummary[1],
                            best_move_san |-> bestMoveSan[1],
                            best_move_reason |-> bestMoveReason[1],
                            danger_to_watch |-> dangerToWatch[1],
                            white_plan |-> whitePlan[1],
                            black_plan |-> blackPlan[1],
                            concrete_ideas |-> Slice0(ConcreteIdeas(ideasRaw, 1), 2)]) :
       result \in {ParseWithRepair(candidate)}})

\* A loop without the catch clause: the exception leaves the function.
Caught_Rethrows(outcome) == outcome

\* catch { }: a candidate that threw is skipped.
Caught(outcome) == IF outcome.outcome = "throw" THEN Continue ELSE outcome

\* for (const candidate of candidates) { try { ... } catch { } }; return null
RECURSIVE ForCandidates(_)
ForCandidates(candidates) ==
    IF candidates = <<>> THEN ReturnNull
    ELSE Only({IF pass.outcome = "continue" THEN ForCandidates(Tail(candidates))
               ELSE pass :
               pass \in {Caught(TryCandidate(Head(candidates)))}})

\* src: parseCommentaryStructuredFromText
parseCommentaryStructuredFromText(rawText) ==
    Only({IF clean = <<>> THEN ReturnNull
          ELSE Only({ForCandidates(candidates) : candidates \in {CandidatesOf(clean)}}) :
          clean \in {sanitizeCommentaryText(rawText)}})

(***************************************************************************)
(* SpecExtract: parseCommentaryStructuredFromText applied to a commentary  *)
(* text as it grows.  The full text is drawn from a menu: a commentary     *)
(* object whose title, risk, plans and ideas vary, alone or inside a fence *)
(* or prose, and texts of other shapes.  Every prefix of it is parsed.     *)
(***************************************************************************)
Str(s) == <<QUOTE>> \o s \o <<QUOTE>>
Member(key, value) == Str(<<key>>) \o <<":">> \o value

RECURSIVE JoinWith(_, _)
JoinWith(parts, sep) ==
    IF parts = <<>> THEN <<>>
    ELSE IF Len(parts) = 1 THEN parts[1]
    ELSE parts[1] \o sep \o JoinWith(Tail(parts), sep)

ArrayText(items) == <<"[">> \o JoinWith(items, <<",">>) \o <<"]">>

TitleNames == {"plain", "ticks", "braces", "quotes", "empty", "blank", "number"}
TitleText(name) ==
    CASE name = "plain" -> Str(<<"Open", " ", "center">>)
      [] name = "ticks" -> Str(<<"Play", " ">> \o Fence \o <<"Nf3">> \o Fence)
      [] name = "braces" -> Str(<<"{", "center", "}", "}">>)
      [] name = "quotes" -> Str(<<BSL, QUOTE, "Open", BSL, QUOTE, " ", "{">>)
      [] name = "empty" -> Str(<<>>)
      [] name = "blank" -> Str(<<" ">>)
      [] name = "number" -> <<"5">>

RiskNames == {"given", "missing", "null"}

PlanNames == {"two", "one", "second_empty", "third", "not_text", "text_two",
              "text_dash", "text_one", "missing"}
PlanText(name) ==
    CASE name = "two" -> ArrayText(<<Str(<<"Develop">>), Str(<<"Castle">>)>>)
      [] name = "one" -> ArrayText(<<Str(<<"Develop">>)>>)
      [] name = "second_empty" -> ArrayText(<<Str(<<"Develop">>), Str(<<" ">>)>>)
      [] name = "third" -> ArrayText(<<Str(<<"Develop">>), Str(<<>>), Str(<<"Castle">>)>>)
      [] name = "not_text" -> ArrayText(<<Str(<<"Develop">>), <<"5">>>>)
      [] name = "text_two" -> Str(<<"Develop", ";", " ", "Castle">>)
      [] name = "text_dash" -> Str(<<"Develop", " ", "-", " ", "Castle", " ", "-", " ", "Push">>)
      [] name = "text_one" -> Str(<<"Develop", "-", "Castle", ";">>)
      [] name = "missing" -> <<>>

IdeaNames == {"none", "one"}
IdeaText ==
    <<"{">> \o Member("title", Str(<<"Try", " ", "e4">>)) \o <<",">>
            \o Member("description", Str(<<"Space">>)) \o <<",">>
            \o Member("playback_pv_uci", ArrayText(<<Str(<<"E2E4">>), Str(<<>>)>>))
    \o <<"}">>

BaseObject ==
    [shape |-> "object", title |-> "plain", risk |-> "given", white |-> "two",
     black |-> "two", ideas |-> "none", comma |-> FALSE, wrapper |-> "bare"]

\* The members of the object an input names, in the order of the prompt.
MembersOf(input) ==
    <<Member("position_plan_title", TitleText(input.title)),
      Member("advantage_side", Str(<<"white">>)),
      Member("advantage_summary", Str(<<"White", " ", "is", " ", "better">>)),
      Member("best_move_san", Str(<<"Nf3">>)),
      Member("best_move_reason", Str(<<"Develops">>))>>
    \o (IF input.risk = "given" THEN <<Member("danger_to_watch", Str(<<"Pin">>))>>
        ELSE IF input.risk = "null" THEN <<Member("danger_to_watch", <<"null">>)>>
        ELSE <<>>)
    \o (IF input.white = "missing" THEN <<>>
        ELSE <<Member("white_plan", PlanText(input.white))>>)
    \o (IF input.black = "missing" THEN <<>>
        ELSE <<Member("black_plan", PlanText(input.black))>>)
    \o (IF input.ideas = "one"
        THEN <<Member("concrete_ideas", ArrayText(<<IdeaText>>))>> ELSE <<>>)

ObjectText(input) ==
    <<"{">> \o JoinWith(MembersOf(input), <<",">>)
            \o (IF input.comma THEN <<",", " ">> ELSE <<>>) \o <<"}">>

WrapperNames == {"bare", "fence_json", "fence", "open_fence", "prose"}
\* Prose that quotes a word and holds a stray closing brace.
QuotedProse == "quoted_prose"
\* What stands before and after the object.
Before(wrapper) ==
    CASE wrapper = "bare" -> <<>>
      [] wrapper = "fence_json" -> Fence \o <<"json", LF>>
      [] wrapper = "fence" -> Fence \o <<LF>>
      [] wrapper = "open_fence" -> Fence \o <<"json", LF>>
      [] wrapper = "prose" -> <<"Here", " ", "is", " ", "the", " ", "plan", ":", " ">>
      [] wrapper = QuotedProse -> <<"The", " ", QUOTE, "plan", QUOTE, " ", "}", ":", LF>>
After(wrapper) ==
    CASE wrapper = "bare" -> <<>>
      [] wrapper = "fence_json" -> <<LF>> \o Fence
      [] wrapper = "fence" -> <<LF>> \o Fence \o <<LF>>
      [] wrapper = "open_fence" -> <<LF>>
      [] wrapper = "prose" -> <<LF, "Good", " ", "luck", ".">>
      [] wrapper = QuotedProse -> <<" ", "}", LF, QUOTE, "Good", " ", "luck", QUOTE>>

OtherShapes == {"empty", "blank", "prose", "null", "number", "array", "string", "braces"}
OtherText(shape) ==
    CASE shape = "empty" -> <<>>
      [] shape = "blank" -> <<" ", LF>>
      [] shape = "prose" -> <<"White", " ", "is", " ", "better", ".">>
      [] shape = "null" -> <<"null">>
      [] shape = "number" -> <<"18">>
      [] shape = "array" -> ArrayText(<<<<"1">>, <<"null">>>>)
      [] shape = "string" -> Str(<<"plan">>)
      [] shape = "braces" -> <<"}", "{", "}", " ", "{", "plan", "}">>

TextOf(input) ==
    IF input.shape = "object"
    THEN Before(input.wrapper) \o ObjectText(input) \o After(input.wrapper)
    ELSE OtherText(input.shape)

\* Where the object's final closing brace stands in the text; 0 without an object.
CloseAt(input) ==
    IF input.shape = "object" THEN Len(Before(input.wrapper)) + Len(ObjectText(input))
    ELSE 0

ObjectInputs ==
    {[BaseObject EXCEPT !.title = t] : t \in TitleNames}
    \cup {[BaseObject EXCEPT !.risk = r] : r \in RiskNames}
    \cup {[BaseObject EXCEPT !.white = w, !.black = b] : w \in PlanNames, b \in {"two", "one"}}
    \cup {[BaseObject EXCEPT !.ideas = i] : i \in IdeaNames}
    \cup {[BaseObject EXCEPT !.comma = TRUE]}

ExtractInputs ==
    {[o EXCEPT !.wrapper = w] : o \in ObjectInputs, w \in WrapperNames}
    \cup {[o EXCEPT !.wrapper = QuotedProse] :
              o \in {[BaseObject EXCEPT !.title = "braces"],
                     [BaseObject EXCEPT !.title = "quotes"],
                     [BaseObject EXCEPT !.ideas = "one"]}}
    \cup {[BaseObject EXCEPT !.shape = s] : s \in OtherShapes}

MaxDelta == 2

NotParsed == [outcome |-> "none", plan |-> None]

InitExtract ==
    /\ AppInit
    /\ arrowState = createInitialAnalysisArrowState
    /\ candidateLines = <<>>
    /\ recorded = <<>>
    /\ last = [op |-> [type |-> "none"]]
    /\ \E input \in ExtractInputs :
           wire = [input |-> input, text |-> TextOf(input), read |-> 0,
                   result |-> NotParsed]

\* A delta brings up to MaxDelta elements, or all that is left.
DeltaSizes(left) == (0..Min(MaxDelta, left)) \cup {left}

\* The text so far grows by a delta (or is still empty) and is parsed:
\* parseCommentaryStructuredFromText(text so far).
ParseTextSoFar ==
    \E n \in DeltaSizes(Len(wire.text) - wire.read) :
        /\ n > 0 \/ wire.result = NotParsed
        /\ wire' = [wire EXCEPT
                       !.read = @ + n,
                       !.result = parseCommentaryStructuredFromText(
                                      SubSeq(wire.text, 1, wire.read + n))]
        /\ last' = [op |-> [type |-> "parse"]]
        /\ UNCHANGED <<arrowState, candidateLines, recorded, appVars>>

NextExtract == ParseTextSoFar

SpecExtract == InitExtract /\ [][NextExtract]_vars


(***************************************************************************)
(* SpecReducer: the reducer alone, driven by every action a caller can     *)
(* dispatch, with inputs drawn from small menus.                           *)
(***************************************************************************)
AppConfig ==
    [minDepth |-> ANALYSIS_MIN_DEPTH, warmupDepthCount |-> ANALYSIS_WARMUP_DEPTH_COUNT,
     warmupTopN |-> ANALYSIS_WARMUP_TOP_N, steadyTopN |-> ANALYSIS_STEADY_TOP_N]
ShortWarmupConfig ==
    [minDepth |-> 1, warmupDepthCount |-> 1, warmupTopN |-> 2, steadyTopN |-> 1]
Configs == {AppConfig, ShortWarmupConfig}

LineE4 == PVLine(1, "e2e4", <<"e2e4", "e7e5">>)
LineD4 == PVLine(2, "d2d4", <<"d2d4">>)
LineNf3 == PVLine(3, "g1f3", <<>>)
\* Lists of lines as a server may send them: in rank order or not.
ReducerLines == {<<LineD4, LineE4>>, <<LineE4, LineD4, LineNf3>>}
ReducerDepths == {1, 2}
EngineUnavailable == "engine unavailable"

ReducerPayloads ==
    {DepthPayload(t, a, f, d, ls) :
        t \in {"depth_update", "analysis_complete"}, a \in AnalysisIds, f \in Fens,
        d \in ReducerDepths, ls \in ReducerLines}
    \cup {ErrorPayload(a, EngineUnavailable) : a \in {None} \cup {Some(x) : x \in AnalysisIds}}

NoOp == [type |-> "none"]

InitReducer ==
    /\ AppInit
    /\ arrowState = createInitialAnalysisArrowState
    /\ last = [op |-> NoOp, pre |-> createInitialAnalysisArrowState]
    /\ candidateLines = <<>>
    /\ recorded = <<>>
    /\ wire = NoWire

Dispatch(action) ==
    /\ arrowState' = analysisArrowReducer(arrowState, action)
    /\ last' = [op |-> action, pre |-> arrowState]
    /\ UNCHANGED <<candidateLines, recorded, wire, appVars>>

DispatchStart ==
    \E token \in 1..MaxToken, fen \in Fens, cfg \in Configs :
        Dispatch(StartSessionAction(token, fen, cfg))
DispatchStop ==
    \E token \in 1..MaxToken, nextStatus \in {"idle", "closed"} :
        Dispatch(StopSessionAction(token, nextStatus))
DispatchReset == Dispatch(ResetBoardAction)
DispatchLocalError == Dispatch(LocalErrorAction("Invalid FEN"))
DispatchIngest ==
    /\ Len(arrowState.events) < MaxLog
    /\ \E token \in 1..MaxToken, payload \in ReducerPayloads :
        Dispatch(IngestEventAction(token, payload))

NextReducer ==
    \/ DispatchStart
    \/ DispatchStop
    \/ DispatchReset
    \/ DispatchLocalError
    \/ DispatchIngest

SpecReducer == InitReducer /\ [][NextReducer]_vars

(***************************************************************************)
(* SpecSession: the reducer as the page drives it.  start_session carries  *)
(* the value of the counter, which invalidateActiveStream has advanced     *)
(* just before; stop_session and ingest_stream_event carry a token that    *)
(* some callback or stopStream has captured, that is, any value the        *)
(* counter has had.                                                        *)
(***************************************************************************)
SessionPayloads ==
    {DepthPayload(t, a, f, ANALYSIS_MIN_DEPTH, <<LineE4, LineD4>>) :
        t \in {"depth_update", "analysis_complete"}, a \in AnalysisIds, f \in Fens}
    \cup {ErrorPayload(None, EngineUnavailable), OtherPayload("heartbeat")}

InitSession ==
    /\ AppInit
    /\ arrowState = createInitialAnalysisArrowState
    /\ last = [op |-> NoOp, pre |-> createInitialAnalysisArrowState]
    /\ candidateLines = <<>>
    /\ recorded = {}
    /\ wire = NoWire

\* The action is an analysis_complete that the session of `state` accepts:
\* its token, its position, and its analysis id if one is pinned.
AcceptedComplete(state, action) ==
    /\ action.type = "ingest_stream_event"
    /\ action.payload.type = "analysis_complete"
    /\ state.session # None
    /\ state.session[1].streamToken = action.streamToken
    /\ state.session[1].targetFen = action.payload.fen
    /\ state.session[1].analysisId \in {None, action.payload.analysis_id}

\* The tokens whose session an analysis_complete has ended.
CompletedAfter(completed, state, action) ==
    IF AcceptedComplete(state, action) THEN completed \cup {action.streamToken}
    ELSE completed

SessionDispatch(action) ==
    /\ arrowState' = analysisArrowReducer(arrowState, action)
    /\ last' = [op |-> action, pre |-> arrowState]
    /\ recorded' = CompletedAfter(recorded, arrowState, action)
    /\ UNCHANGED <<candidateLines, wire, streamRef, cepoch, commentaryStreamRef,
                   handles, commentary, board, stopped, delivered>>

\* startStream: invalidateActiveStream, then start_session with the counter.
SessionStart ==
    /\ epoch < MaxToken
    /\ epoch' = epoch + 1
    /\ \E fen \in Fens : SessionDispatch(StartSessionAction(epoch + 1, fen, AppConfig))

\* stopStream and the onClose callback of startStream
SessionStop ==
    /\ UNCHANGED epoch
    /\ \E token \in 1..epoch, nextStatus \in {"idle", "closed"} :
        SessionDispatch(StopSessionAction(token, nextStatus))

\* The onEvent callback of startStream
SessionIngest ==
    /\ UNCHANGED epoch
    /\ Len(arrowState.events) < MaxLog
    /\ \E token \in 1..epoch, payload \in SessionPayloads :
        SessionDispatch(IngestEventAction(token, payload))

\* The onError callback of startStream, and startStream itself when the
\* position is invalid or the access token is missing
SessionLocalError ==
    /\ UNCHANGED epoch
    /\ SessionDispatch(LocalErrorAction("Failed to fetch"))

\* A change of the board
SessionReset ==
    /\ UNCHANGED epoch
    /\ SessionDispatch(ResetBoardAction)

NextSession ==
    \/ SessionStart
    \/ SessionStop
    \/ SessionIngest
    \/ SessionLocalError
    \/ SessionReset

SpecSession == InitSession /\ [][NextSession]_vars

(***************************************************************************)
(* SpecMerge: mergeCandidateStockfishLines applied to a sequence of        *)
(* reports of one session.  Reports are drawn from a menu: one or two      *)
(* lines for the branches e2e4 and d2d4, or ten lines for ten other        *)
(* branches, which fills the list up to its cap.                           *)
(***************************************************************************)
FillerMoves ==
    <<"a2a3", "b2b3", "c2c3", "f2f3", "g2g3", "h2h3", "a2a4", "b2b4", "c2c4", "h2h4">>
WideLines == [i \in 1..Len(FillerMoves) |-> PVLine(i, FillerMoves[i], <<FillerMoves[i]>>)]
NarrowLines ==
    {<<PVLine(1, "e2e4", <<"E2E4", "e7e5">>)>>,
     <<PVLine(2, "e2e4", <<>>)>>,
     <<PVLine(2, "d2d4", <<"d2d4">>)>>,
     <<PVLine(1, "d2d4", <<"d2d4">>), PVLine(2, "e2e4", <<"e2e4">>)>>,
     <<PVLine(1, "e2e4", <<"e2e4", "c7c5">>), PVLine(1, "d2d4", <<"d2d4">>)>>,
     <<PVLine(1, "", <<>>)>>}
MergeLinesMenu == NarrowLines \cup {WideLines}
MergeBranches == {"e2e4", "d2d4"} \cup {FillerMoves[i] : i \in 1..Len(FillerMoves)}

MergePayloads ==
    {DepthPayload("depth_update", "a1", FenA, d, ls) :
        d \in 1..MaxMergeDepth, ls \in MergeLinesMenu}

BranchesOf(lines) == {lines[i].branchUci : i \in 1..Len(lines)}
EntryOf(lines, b) == lines[CHOOSE i \in 1..Len(lines) : lines[i].branchUci = b]
ReportedBranches(payload) ==
    {BranchOfLine(payload.lines[i]) : i \in 1..Len(payload.lines)} \ {""}

\* The highest depth ever stored for each branch in this session (0: never).
RecordedAfter(rec, lines) ==
    [b \in MergeBranches |->
        IF b \in BranchesOf(lines) THEN Max(rec[b], EntryOf(lines, b).depth) ELSE rec[b]]
NothingRecorded == [b \in MergeBranches |-> 0]

InitMerge ==
    /\ AppInit
    /\ arrowState = createInitialAnalysisArrowState
    /\ candidateLines = <<>>
    /\ recorded = NothingRecorded
    /\ wire = NoWire
    /\ last = [op |-> NoOp, pre |-> <<>>, preRecorded |-> NothingRecorded]

\* onEvent: candidateStockfishLinesRef.current = mergeCandidateStockfishLines(...)
MergeReport ==
    \E payload \in MergePayloads :
        /\ candidateLines' = mergeCandidateStockfishLines(candidateLines, payload)
        /\ recorded' = RecordedAfter(recorded, candidateLines')
        /\ last' = [op |-> payload, pre |-> candidateLines, preRecorded |-> recorded]
        /\ UNCHANGED <<arrowState, wire, appVars>>

\* startStream / stopStream("idle"): candidateStockfishLinesRef.current = []
ClearCandidates ==
    /\ candidateLines' = <<>>
    /\ recorded' = NothingRecorded
    /\ last' = [op |-> [type |-> "clear"], pre |-> candidateLines, preRecorded |-> recorded]
    /\ UNCHANGED <<arrowState, wire, appVars>>

NextMerge ==
    \/ MergeReport
    \/ ClearCandidates

SpecMerge == InitMerge /\ [][NextMerge]_vars

(***************************************************************************)
(* The analysis page (routes/_layout/analysis.tsx) on top of the transport *)
(* (features/chess/sse.ts).  The handlers are functions of the page state  *)
(* S: both counters, both handle references, every transport created so    *)
(* far, the commentary state, the reducer state and the candidate lines.   *)
(***************************************************************************)
MaxHandles == 2
MaxEpoch == 3
MaxFrames == 2

Page ==
    [epoch |-> epoch, streamRef |-> streamRef, cepoch |-> cepoch,
     commentaryStreamRef |-> commentaryStreamRef, handles |-> handles,
     commentary |-> commentary, arrowState |-> arrowState,
     candidateLines |-> candidateLines]

Becomes(S) ==
    /\ epoch' = S.epoch
    /\ streamRef' = S.streamRef
    /\ cepoch' = S.cepoch
    /\ commentaryStreamRef' = S.commentaryStreamRef
    /\ handles' = S.handles
    /\ commentary' = S.commentary
    /\ arrowState' = S.arrowState
    /\ candidateLines' = S.candidateLines

\* src: dispatchArrowAction
dispatchArrowAction(S, action) ==
    [S EXCEPT !.arrowState = analysisArrowReducer(@, action)]

\* One transport: closed, controller.signal.aborted, where run() is waiting
\* (pc: the await of fetch, of response.text, of reader.read, inside
\* emitBufferedEvents, or returned), the frames of the chunk
\* being emitted that are still to come (queue), the two closure variables of
\* startStream, and what the transport has done so far: the calls of onClose
\* and onError, the error handed to onError, whether run() got as far as
\* onOpen (opened), whether onEvent was called at all (gotEvent) and whether
\* it was called after close() (late).
NewHandle(kind, tok, ctok) ==
    [kind |-> kind, tok |-> tok, ctok |-> ctok, closed |-> FALSE, aborted |-> FALSE,
     pc |-> "fetch", queue |-> 0,
     commentaryStarted |-> FALSE, commentaryRefreshedAtDepth18 |-> FALSE,
     nClose |-> 0, nError |-> 0, late |-> FALSE,
     opened |-> FALSE, gotEvent |-> FALSE, error |-> None]

\* src: openAuthenticatedSse; the handle returned is Len(S.handles) + 1
openAuthenticatedSse(S, kind, tok, ctok) ==
    [S EXCEPT !.handles = Append(@, NewHandle(kind, tok, ctok))]

\* A page whose callbacks never compare tokens.
IsCurrentStream_Always(S, h) == TRUE

\* streamToken !== activeStreamTokenRef.current (engine),
\* params.commentaryStreamToken !== activeCommentaryStreamTokenRef.current
IsCurrentStream(S, h) ==
    IF S.handles[h].kind = "engine" THEN S.handles[h].tok = S.epoch
    ELSE S.handles[h].tok = S.cepoch

\* A page that reports the end of the stream as an error.
onClose_ReportsError(S, h) ==
    LET S1 == [S EXCEPT !.handles[h].nClose = @ + 1]
    IN IF ~IsCurrentStream(S1, h) THEN S1
       ELSE IF S1.handles[h].kind = "engine"
       THEN dispatchArrowAction(S1, LocalErrorAction("Stream closed"))
       ELSE [S1 EXCEPT !.commentary.status = IF @ = "streaming" THEN "closed" ELSE @]

\* src: the onClose callbacks of startStream and startCommentaryStream
onClose(S, h) ==
    LET S1 == [S EXCEPT !.handles[h].nClose = @ + 1]
    IN IF ~IsCurrentStream(S1, h) THEN S1
       ELSE IF S1.handles[h].kind = "engine"
       THEN dispatchArrowAction(S1, StopSessionAction(S1.handles[h].tok, "closed"))
       ELSE [S1 EXCEPT !.commentary.status = IF @ = "streaming" THEN "closed" ELSE @]

\* A close without the test of `closed`.
close_Unguarded(S, h) ==
    IF h = 0 THEN S
    ELSE onClose([S EXCEPT !.handles[h].closed = TRUE,
                           !.handles[h].aborted = TRUE], h)

\* src: close (streamRef.current?.close(): h = 0 is the null reference)
close(S, h) ==
    IF h = 0 THEN S
    ELSE IF S.handles[h].closed THEN S
    ELSE onClose([S EXCEPT !.handles[h].closed = TRUE,
                           !.handles[h].aborted = TRUE], h)

\* A page that closes the transport without advancing the counter.
invalidateActiveStream_KeepsToken(S) ==
    [close(S, S.streamRef) EXCEPT !.streamRef = 0]

\* A page whose counter starts over at every invalidation.
invalidateActiveStream_Rewinds(S) ==
    LET rewound == [S EXCEPT !.epoch = 1]
    IN [close(rewound, rewound.streamRef) EXCEPT !.streamRef = 0]

\* src: invalidateActiveStream
invalidateActiveStream(S) ==
    LET bumped == [S EXCEPT !.epoch = @ + 1]
    IN [close(bumped, bumped.streamRef) EXCEPT !.streamRef = 0]

\* A page that closes the commentary transport without advancing the
\* commentary counter.
invalidateActiveCommentaryStream_KeepsToken(S) ==
    [close(S, S.commentaryStreamRef) EXCEPT !.commentaryStreamRef = 0]

\* src: invalidateActiveCommentaryStream
invalidateActiveCommentaryStream(S) ==
    LET bumped == [S EXCEPT !.cepoch = @ + 1]
    IN [close(bumped, bumped.commentaryStreamRef) EXCEPT !.commentaryStreamRef = 0]

\* src: startCommentaryStream
startCommentaryStream(S, commentaryStreamToken) ==
    LET S1 == [S EXCEPT !.commentary = [CommentaryIdle EXCEPT !.status = "streaming"]]
    IN [openAuthenticatedSse(S1, "commentary", commentaryStreamToken, 0)
            EXCEPT !.commentaryStreamRef = Len(S1.handles) + 1]

\* src: startStream.onEvent, the commentary policy on a depth-like payload
commentaryPolicy(S, h, depth) ==
    IF ~S.handles[h].commentaryStarted
    THEN [startCommentaryStream(S, S.handles[h].ctok)
            EXCEPT !.handles[h].commentaryStarted = TRUE,
                   !.handles[h].commentaryRefreshedAtDepth18 =
                        depth >= COMMENTARY_REFRESH_DEPTH]
    ELSE IF ~S.handles[h].commentaryRefreshedAtDepth18 /\ depth >= COMMENTARY_REFRESH_DEPTH
    THEN LET inv == invalidateActiveCommentaryStream(S)
         IN [startCommentaryStream(inv, inv.cepoch)
                EXCEPT !.handles[h].commentaryRefreshedAtDepth18 = TRUE]
    ELSE S

\* A handler without the token test.
engineOnEvent_Unguarded(S, h, payload) ==
    IF payload.type = "malformed" THEN S
    ELSE LET merged ==
                IF isStockfishDepthLikeEvent(payload)
                THEN commentaryPolicy(
                        [S EXCEPT !.candidateLines =
                            mergeCandidateStockfishLines(@, payload)],
                        h, stockfishDepthOfEvent(payload))
                ELSE S
             ingested ==
                dispatchArrowAction(merged, IngestEventAction(S.handles[h].tok, payload))
         IN IF payload.type = "analysis_complete" \/ payload.type = "analysis_error"
            THEN invalidateActiveStream(ingested)
            ELSE ingested

\* src: startStream.onEvent.  A payload of type "malformed" is event data
\* JSON.parse throws on.
engineOnEvent(S, h, payload) ==
    IF ~IsCurrentStream(S, h) THEN S
    ELSE IF payload.type = "malformed" THEN S
    ELSE LET merged ==
                IF isStockfishDepthLikeEvent(payload)
                THEN commentaryPolicy(
                        [S EXCEPT !.candidateLines =
                            mergeCandidateStockfishLines(@, payload)],
                        h, stockfishDepthOfEvent(payload))
                ELSE S
             ingested ==
                dispatchArrowAction(merged, IngestEventAction(S.handles[h].tok, payload))
         IN IF payload.type = "analysis_complete" \/ payload.type = "analysis_error"
            THEN invalidateActiveStream(ingested)
            ELSE ingested

\* src: startCommentaryStream.onEvent.  ev.name is the SSE event name, the
\* other fields are those of the JSON payload.
commentaryOnEvent(S, h, ev) ==
    IF ~IsCurrentStream(S, h) THEN S
    ELSE IF ev.name = "proxy_error"
    THEN invalidateActiveCommentaryStream(
            [S EXCEPT !.commentary.status = "closed",
                      !.commentary.error = Some("Commentary stream failed.")])
    ELSE IF ev.type = "commentary_text_delta"
    THEN [S EXCEPT !.commentary.rawText = IF ev.text = None THEN @ ELSE ev.text[1],
                   !.commentary.error = None,
                   !.commentary.status = "streaming"]
    ELSE IF ev.type = "commentary_complete"
    THEN LET completionText ==
                IF ev.text = None THEN S.commentary.rawText ELSE ev.text[1]
         IN invalidateActiveCommentaryStream(
                [S EXCEPT !.commentary.rawText =
                              IF Len(completionText) >= Len(@) THEN completionText ELSE @,
                          !.commentary.structured = ev.structured,
                          !.commentary.status = "closed"])
    ELSE IF ev.type = "commentary_error"
    THEN invalidateActiveCommentaryStream(
            [S EXCEPT !.commentary.status = "closed",
                      !.commentary.error = Some(ev.message),
                      !.commentary.structured = None])
    ELSE S

onEvent(S, h, ev) ==
    IF S.handles[h].kind = "engine" THEN engineOnEvent(S, h, ev)
    ELSE commentaryOnEvent(S, h, ev)

\* src: the onError callbacks of startStream and startCommentaryStream
onError(S, h, message) ==
    LET S1 == [S EXCEPT !.handles[h].nError = @ + 1,
                        !.handles[h].error = Some(message)]
    IN IF ~IsCurrentStream(S1, h) THEN S1
       ELSE IF S1.handles[h].kind = "engine"
       THEN invalidateActiveStream(dispatchArrowAction(S1, LocalErrorAction(message)))
       ELSE invalidateActiveCommentaryStream(
                [S1 EXCEPT !.commentary.status = "closed",
                           !.commentary.error = Some(message),
                           !.commentary.structured = None])

\* src: stopStream
stopStream(S, nextStatus) ==
    LET activeToken == S.epoch
        S1 == invalidateActiveCommentaryStream(invalidateActiveStream(S))
        S2 == dispatchArrowAction(S1, StopSessionAction(activeToken, nextStatus))
        S3 == [S2 EXCEPT !.commentary.status = nextStatus, !.commentary.error = None]
    IN IF nextStatus = "idle"
       THEN [S3 EXCEPT !.commentary.rawText = "", !.commentary.structured = None,
                       !.candidateLines = <<>>]
       ELSE S3

InvalidFen == "Invalid FEN"
MissingAccessToken == "Missing access token. Please log in again."

\* A start that does not look for the access token.
PreconditionFailure_TokenNotChecked(fenError, hasToken) ==
    IF fenError THEN Some(InvalidFen) ELSE None

\* src: startStream, the two early returns: the message of the local_error,
\* or null when the session may start.  fenError is parsedFen.error,
\* hasToken whether localStorage holds an access token.
PreconditionFailure(fenError, hasToken) ==
    IF fenError THEN Some(InvalidFen)
    ELSE IF ~hasToken THEN Some(MissingAccessToken)
    ELSE None

\* src: startStream
startStream(S, fen, fenError, hasToken) ==
    LET S1 == invalidateActiveCommentaryStream(invalidateActiveStream(S))
        S2 == [S1 EXCEPT !.candidateLines = <<>>, !.commentary = CommentaryIdle]
        failure == PreconditionFailure(fenError, hasToken)
    IN IF failure # None THEN dispatchArrowAction(S2, LocalErrorAction(failure[1]))
       ELSE LET S3 == dispatchArrowAction(S2, StartSessionAction(S2.epoch, fen, AppConfig))
            IN [openAuthenticatedSse(S3, "engine", S2.epoch, S2.cepoch)
                    EXCEPT !.streamRef = Len(S3.handles) + 1]

(***************************************************************************)
(* run() of one transport.  Each await ends with the promise settling to   *)
(* an outcome and run() continuing (Resume).  controller.abort() rejects   *)
(* a promise that is still pending; a promise that had settled before      *)
(* close() was called keeps its outcome, so the continuation of a closed   *)
(* transport sees either the abort or any outcome of the await.  The       *)
(* frames of one chunk are handed to onEvent one after the other           *)
(* (EmitFrame); nothing else runs until the chunk is exhausted.            *)
(***************************************************************************)
SetPc(S, h, pc) == [S EXCEPT !.handles[h].pc = pc]

Finished(S, h) == SetPc(S, h, "done")

\* while (!closed) { await reader.read() ... }; a closed transport leaves
\* the loop and skips the final onClose.
NextRead(S, h) ==
    IF S.handles[h].closed THEN Finished(S, h) ELSE SetPc(S, h, "read")

\* A loop exit without the test of `closed`.
AfterLoop_Unguarded(S, h) == onClose([S EXCEPT !.handles[h].closed = TRUE], h)

\* if (!closed) { closed = true; callbacks.onClose?.() }
AfterLoop(S, h) ==
    IF S.handles[h].closed THEN S
    ELSE onClose([S EXCEPT !.handles[h].closed = TRUE], h)

\* A catch clause that reports every error.
runThrows_AlwaysReports(S, h, message) == Finished(onError(S, h, message), h)

\* catch (error): silent when the controller was aborted, else onError.
runThrows(S, h, message) ==
    Finished(IF S.handles[h].aborted THEN S ELSE onError(S, h, message), h)

\* `Stream request failed: ${reason}`: reason is the body of the response,
\* or `${response.status} ${response.statusText}` when the body is blank or
\* cannot be read.
FailedWithBody == "Stream request failed: engine offline"
FailedWithStatus == "Stream request failed: 502 Bad Gateway"

\* A message that never carries the body.
StreamRequestFailed_StatusOnly(outcome) == FailedWithStatus

\* let reason = status line; try { body = await response.text();
\* if (body.trim()) reason = body } catch { }
StreamRequestFailed(outcome) ==
    IF outcome = "text" THEN FailedWithBody ELSE FailedWithStatus

\* The continuation of run() after the awaited promise has settled to
\* `outcome`; a chunk holds k complete frames.  The page passes no onOpen
\* callback; `opened` marks that run() has reached the call.
runResume(S, h, outcome, k) ==
    CASE outcome = "ok" -> NextRead([S EXCEPT !.handles[h].opened = TRUE], h)
      [] outcome = "http" -> SetPc(S, h, "errbody")
      [] outcome = "chunk" ->
            IF k > 0 THEN [SetPc(S, h, "emit") EXCEPT !.handles[h].queue = k]
            ELSE NextRead(S, h)
      [] outcome = "eof" -> Finished(AfterLoop(S, h), h)
      [] outcome = "nobody" ->
            runThrows(S, h, "Stream request returned no readable body.")
      [] outcome \in {"text", "blank", "unreadable"} ->
            runThrows(S, h, StreamRequestFailed(outcome))
      [] OTHER -> runThrows(S, h, "Failed to fetch")

\* What the promise awaited at pc can settle to, other than by an abort.
Outcomes(pc) ==
    CASE pc = "fetch" -> {"ok", "http", "nobody", "reject"}
      [] pc = "errbody" -> {"text", "blank", "unreadable"}
      [] pc = "read" -> {"chunk", "eof", "reject"}
      [] OTHER -> {}

AppLines == <<LineE4, LineD4>>
PagePayloads ==
    {DepthPayload("depth_update", "a1", FenA, ANALYSIS_MIN_DEPTH, AppLines),
     DepthPayload("depth_update", "a1", FenA, COMMENTARY_REFRESH_DEPTH, AppLines),
     DepthPayload("depth_update", "a2", FenA, ANALYSIS_MIN_DEPTH, AppLines),
     DepthPayload("depth_update", "a1", FenB, ANALYSIS_MIN_DEPTH, AppLines),
     DepthPayload("analysis_complete", "a1", FenA, COMMENTARY_REFRESH_DEPTH, AppLines),
     DepthPayload("analysis_complete", "a1", FenB, COMMENTARY_REFRESH_DEPTH, AppLines),
     ErrorPayload(None, EngineUnavailable),
     OtherPayload("heartbeat"), OtherPayload("malformed")}

CommentaryEvent(name, type, text, structured) ==
    [name |-> name, type |-> type, text |-> text, structured |-> structured,
     message |-> "commentary failed"]
CommentaryEvents ==
    {CommentaryEvent("proxy_error", "-", None, None),
     CommentaryEvent("message", "commentary_text_delta", Some("ab"), None),
     CommentaryEvent("message", "commentary_complete", None, Some("plan")),
     CommentaryEvent("message", "commentary_complete", Some("a"), None),
     CommentaryEvent("message", "commentary_error", None, None),
     CommentaryEvent("message", "malformed", None, None)}

\* Some transport is inside emitBufferedEvents.
Busy == \E h \in 1..Len(handles) : handles[h].pc = "emit"

\* src: isStreaming; the Start button is disabled while it holds, the Stop
\* button while it does not.
isStreaming == arrowState.status = "streaming" \/ commentary.status = "streaming"

PageOp(type, h, payload) == [op |-> [type |-> type], h |-> h, payload |-> payload]

Init ==
    /\ AppInit
    /\ arrowState = createInitialAnalysisArrowState
    /\ candidateLines = <<>>
    /\ recorded = <<>>
    /\ wire = NoWire
    /\ last = PageOp("none", 0, None)

\* The Start button.
StartStream ==
    /\ ~Busy
    /\ ~isStreaming
    /\ epoch < MaxEpoch
    /\ Len(handles) < MaxHandles
    /\ \E hasToken \in BOOLEAN :
        /\ Becomes(startStream(Page, board.fen, board.error, hasToken))
        /\ last' = PageOp("startStream", 0,
                          Some([fenError |-> board.error, hasToken |-> hasToken]))
    /\ UNCHANGED <<board, stopped, delivered, recorded, wire>>

\* The Stop button.
StopStream ==
    /\ ~Busy
    /\ isStreaming
    /\ epoch < MaxEpoch
    /\ Becomes(stopStream(Page, "closed"))
    /\ stopped' = stopped \cup {t \in {epoch} : \E h \in 1..Len(handles) : handles[h].tok = t}
    /\ last' = PageOp("stopStream", 0, None)
    /\ UNCHANGED <<board, delivered, recorded, wire>>

\* The FEN input, a move on the board, the first step of playConcreteIdea.
ChangeBoard ==
    /\ ~Busy
    /\ epoch < MaxEpoch
    /\ \E fen \in Fens, fenError \in BOOLEAN :
        /\ [fen |-> fen, error |-> fenError] # board
        /\ board' = [fen |-> fen, error |-> fenError]
    /\ Becomes(dispatchArrowAction(stopStream(Page, "idle"), ResetBoardAction))
    /\ stopped' = stopped \cup {t \in {epoch} : \E h \in 1..Len(handles) : handles[h].tok = t}
    /\ last' = PageOp("changeBoard", 0, None)
    /\ UNCHANGED <<delivered, recorded, wire>>

\* The promise transport h is waiting for settles and run() continues.
Resume ==
    /\ ~Busy
    /\ \E h \in 1..Len(handles) :
        \E outcome \in Outcomes(handles[h].pc)
                        \cup (IF handles[h].aborted /\ handles[h].pc # "done"
                              THEN {"abort"} ELSE {}),
           k \in 0..MaxFrames :
            LET hr == handles[h]
                called ==
                    IF outcome = "eof" THEN (IF hr.closed THEN "resume" ELSE "onClose")
                    ELSE IF outcome \in {"ok", "http", "chunk"} \/ hr.aborted THEN "resume"
                    ELSE "onError"
            IN /\ (outcome # "chunk") => (k = 0)
               /\ delivered + k <= MaxFrames
               /\ delivered' = delivered + k
               /\ Becomes(runResume(Page, h, outcome, k))
               /\ last' = PageOp(called, h, Some(outcome))
    /\ UNCHANGED <<board, stopped, recorded, wire>>

\* emitBufferedEvents hands the next frame of the chunk to onEvent.
EmitFrame ==
    /\ \E h \in 1..Len(handles) :
        /\ handles[h].pc = "emit"
        /\ \E ev \in (IF handles[h].kind = "engine" THEN PagePayloads ELSE CommentaryEvents) :
            LET S0 == [Page EXCEPT !.handles[h].queue = @ - 1,
                                   !.handles[h].gotEvent = TRUE,
                                   !.handles[h].late = @ \/ handles[h].aborted]
                S1 == onEvent(S0, h, ev)
                S2 == IF S1.handles[h].queue = 0 THEN NextRead(S1, h) ELSE S1
            IN /\ Len(S2.handles) <= MaxHandles
               /\ Becomes(S2)
               /\ last' = PageOp("onEvent", h, ev)
    /\ UNCHANGED <<board, stopped, delivered, recorded, wire>>

Next ==
    \/ StartStream
    \/ StopStream
    \/ ChangeBoard
    \/ Resume
    \/ EmitFrame

Spec == Init /\ [][Next]_vars

(***************************************************************************)
(* SpecCommentary: the page with room for a third transport and a third    *)
(* frame, so that the commentary stream is started, refreshed at depth 18  *)
(* and outlived by its transports.  The position is valid, the access      *)
(* token is present, every request is answered with a readable body, and   *)
(* the engine reports on the session's position under one analysis id.     *)
(***************************************************************************)
MaxCommentaryHandles == 3
MaxCommentaryFrames == 3

CommentaryPagePayloads ==
    {DepthPayload("depth_update", "a1", FenA, ANALYSIS_MIN_DEPTH, AppLines),
     DepthPayload("depth_update", "a1", FenA, COMMENTARY_REFRESH_DEPTH, AppLines),
     DepthPayload("analysis_complete", "a1", FenA, COMMENTARY_REFRESH_DEPTH, AppLines)}

CommentaryStreamEvents ==
    {CommentaryEvent("message", "commentary_text_delta", Some("ab"), None),
     CommentaryEvent("message", "commentary_complete", None, Some("plan")),
     CommentaryEvent("message", "commentary_error", None, None)}

\* What the awaited promise settles to when the request succeeds.
AnsweredOutcomes == {"ok", "chunk", "eof"}

\* The Start button.
CommentaryStart ==
    /\ ~Busy
    /\ ~isStreaming
    /\ Len(handles) < MaxCommentaryHandles
    /\ Becomes(startStream(Page, board.fen, FALSE, TRUE))
    /\ last' = PageOp("startStream", 0, Some([fenError |-> FALSE, hasToken |-> TRUE]))
    /\ UNCHANGED <<board, stopped, delivered, recorded, wire>>

\* The Stop button.
CommentaryStop ==
    /\ ~Busy
    /\ isStreaming
    /\ Becomes(stopStream(Page, "closed"))
    /\ stopped' = stopped \cup {t \in {epoch} : \E h \in 1..Len(handles) : handles[h].tok = t}
    /\ last' = PageOp("stopStream", 0, None)
    /\ UNCHANGED <<board, delivered, recorded, wire>>

\* The promise transport h is waiting for settles and run() continues.
CommentaryResume ==
    /\ ~Busy
    /\ \E h \in 1..Len(handles) :
        \E outcome \in (Outcomes(handles[h].pc) \cap AnsweredOutcomes)
                        \cup (IF handles[h].aborted /\ handles[h].pc # "done"
                              THEN {"abort"} ELSE {}),
           k \in 0..MaxCommentaryFrames :
            LET hr == handles[h]
                called ==
                    IF outcome = "eof" THEN (IF hr.closed THEN "resume" ELSE "onClose")
                    ELSE IF outcome \in {"ok", "http", "chunk"} \/ hr.aborted THEN "resume"
                    ELSE "onError"
            IN /\ (outcome # "chunk") => (k = 0)
               /\ delivered + k <= MaxCommentaryFrames
               /\ delivered' = delivered + k
               /\ Becomes(runResume(Page, h, outcome, k))
               /\ last' = PageOp(called, h, Some(outcome))
    /\ UNCHANGED <<board, stopped, recorded, wire>>

\* emitBufferedEvents hands the next frame of the chunk to onEvent.
CommentaryEmit ==
    /\ \E h \in 1..Len(handles) :
        /\ handles[h].pc = "emit"
        /\ \E ev \in (IF handles[h].kind = "engine" THEN CommentaryPagePayloads
                      ELSE CommentaryStreamEvents) :
            LET S0 == [Page EXCEPT !.handles[h].queue = @ - 1,
                                   !.handles[h].gotEvent = TRUE,
                                   !.handles[h].late = @ \/ handles[h].aborted]
                S1 == onEvent(S0, h, ev)
                S2 == IF S1.handles[h].queue = 0 THEN NextRead(S1, h) ELSE S1
            IN /\ Len(S2.handles) <= MaxCommentaryHandles
               /\ Becomes(S2)
               /\ last' = PageOp("onEvent", h, ev)
    /\ UNCHANGED <<board, stopped, delivered, recorded, wire>>

NextCommentary ==
    \/ CommentaryStart
    \/ CommentaryStop
    \/ CommentaryResume
    \/ CommentaryEmit

SpecCommentary == Init /\ [][NextCommentary]_vars


(***************************************************************************)
(* Claims about the reducer (SpecReducer).                                 *)
(***************************************************************************)
\* The last operation was an ingest carrying the token of a streaming session.
IngestOnLiveSession ==
    /\ last.op.type = "ingest_stream_event"
    /\ last.pre.status = "streaming"
    /\ SessionHasToken(last.pre, last.op.streamToken)

ForeignPositionIngested ==
    /\ IngestOnLiveSession
    /\ isDepthLikeEvent(last.op.payload)
    /\ last.op.payload.fen # last.pre.session[1].targetFen

\* C6: while a session is streaming, an ingest carrying its token and a
\* depth_update or analysis_complete for another position returns the state
\* unchanged (status, session, snapshot, event log and lastError).
C6_ForeignPositionLeavesState ==
    ForeignPositionIngested => arrowState = last.pre

\* C6 witness: such an event was ingested by a session that holds a snapshot.
C6_Witness ==
    /\ ForeignPositionIngested
    /\ last.pre.snapshot # None
    /\ arrowState.snapshot = last.pre.snapshot

\* C8 (as claimed): analysisId is null from start_session, the first accepted
\* depth-like event pins it to its analysis_id, it never changes afterwards,
\* and every later event carrying the session's token and another analysis id
\* leaves the state unchanged.
C8_PinnedIdShieldsState ==
    /\ last.op.type = "start_session" => arrowState.session[1].analysisId = None
    /\ IngestOnLiveSession =>
         LET session == last.pre.session[1]
             payload == last.op.payload
         IN /\ (session.analysisId = None /\ arrowState # last.pre
                 /\ isDepthLikeEvent(payload) /\ arrowState.session # None)
                    => arrowState.session[1].analysisId = payload.analysis_id
            /\ (session.analysisId # None /\ arrowState.session # None)
                    => arrowState.session[1].analysisId = session.analysisId
            /\ (session.analysisId # None /\ payload.analysis_id # None
                 /\ payload.analysis_id # session.analysisId)
                    => arrowState = last.pre

\* C9: while a session is streaming, an ingest carrying its token and an
\* analysis_error closes the state: status closed, lastError the payload's
\* message, session null, snapshot null.
C9_ErrorEventCloses ==
    (IngestOnLiveSession /\ last.op.payload.type = "analysis_error")
        => /\ arrowState.status = "closed"
           /\ arrowState.lastError = Some(last.op.payload.message)
           /\ arrowState.session = None
           /\ arrowState.snapshot = None

\* C9 witness: "engine unavailable" reached a session that held a snapshot.
C9_Witness ==
    /\ IngestOnLiveSession
    /\ last.op.payload.type = "analysis_error"
    /\ last.pre.snapshot # None
    /\ arrowState.lastError = Some(EngineUnavailable)

\* The top-N of the session's policy that applies at a depth.
PolicyTopN(session, depth) ==
    IF depth <= session.minDepth + session.warmupDepthCount - 1
    THEN session.warmupTopN ELSE session.steadyTopN

\* C12: in every state with a snapshot, snapshot.arrows is sorted by
\* ascending rank, and while the session lives its length is at most the
\* top-N of the session's policy for the snapshot's depth.
C12_ArrowsSortedAndBounded ==
    arrowState.snapshot # None =>
        LET arrows == arrowState.snapshot[1].arrows
        IN /\ \A i, j \in 1..Len(arrows) : i < j => arrows[i].rank <= arrows[j].rank
           /\ arrowState.session # None =>
                Len(arrows) <= PolicyTopN(arrowState.session[1],
                                          arrowState.snapshot[1].depth)


\* C23: a stop_session whose token differs from the token of the current
\* session, or that arrives when there is no session, returns the state
\* unchanged; a stop_session with the token of the current session sets the
\* status it names and ends the session, and changes nothing else.
C23_StopNeedsSessionToken ==
    last.op.type = "stop_session" =>
        IF last.pre.session # None
            /\ last.pre.session[1].streamToken = last.op.streamToken
        THEN /\ arrowState = [last.pre EXCEPT !.status = last.op.nextStatus,
                                              !.session = None]
             /\ arrowState # last.pre
        ELSE arrowState = last.pre

\* A stop_session with another token reached a streaming session.
C23_Witness ==
    /\ last.op.type = "stop_session"
    /\ last.pre.status = "streaming"
    /\ last.pre.session # None
    /\ last.pre.session[1].streamToken # last.op.streamToken
    /\ arrowState = last.pre

\* The last operation was an ingest of a depth-like event that the session
\* accepted: its token, its position, and its analysis id if one is pinned.
AcceptedDepthEvent ==
    /\ last.op.type = "ingest_stream_event"
    /\ last.op.payload.type \in {"depth_update", "analysis_complete"}
    /\ last.pre.session # None
    /\ last.pre.session[1].streamToken = last.op.streamToken
    /\ last.pre.session[1].targetFen = last.op.payload.fen
    /\ last.pre.session[1].analysisId \in {None, last.op.payload.analysis_id}

\* The number of lines C27 states for a report of n lines at depth d.
KeptLines(session, d, n) ==
    IF d <= session.minDepth + session.warmupDepthCount - 1
    THEN Min(n, session.warmupTopN)
    ELSE Min(n, session.steadyTopN)

C29_StartResetsState ==
    last.op.type = "start_session" =>
        /\ arrowState.status = "streaming"
        /\ arrowState.session =
              Some([streamToken |-> last.op.streamToken,
                    targetFen |-> last.op.targetFen,
                    analysisId |-> None,
                    minDepth |-> last.op.cfg.minDepth,
                    warmupDepthCount |-> last.op.cfg.warmupDepthCount,
                    warmupTopN |-> last.op.cfg.warmupTopN,
                    steadyTopN |-> last.op.cfg.steadyTopN])
        /\ arrowState.snapshot = None
        /\ arrowState.events = <<>>
        /\ arrowState.lastError = None

\* start_session was applied to a closed state that held an error and a log.
C29_Witness ==
    /\ last.op.type = "start_session"
    /\ last.pre.status = "closed"
    /\ last.pre.lastError # None
    /\ last.pre.events # <<>>
    /\ arrowState.status = "streaming"


\* The last operation was an ingest of an analysis_error on the session's
\* token.
AcceptedErrorEvent ==
    /\ last.op.type = "ingest_stream_event"
    /\ last.op.payload.type = "analysis_error"
    /\ last.pre.session # None
    /\ last.pre.session[1].streamToken = last.op.streamToken

\* C33: every accepted depth-like event replaces the snapshot wholesale:
\* afterwards the snapshot's position, depth and arrows are those of that
\* event alone (the arrows of the first lines of its list), also when its
\* depth is lower than the previous snapshot's; an event that is not
\* accepted (dropped by the token, type, position or analysis id test)
\* leaves the snapshot identical.
C33_SnapshotReplacedWholesale ==
    last.op.type = "ingest_stream_event" =>
        IF AcceptedDepthEvent
        THEN /\ arrowState.snapshot # None
             /\ LET snapshot == arrowState.snapshot[1]
                    payload == last.op.payload
                IN /\ snapshot.depth = payload.depth
                   /\ snapshot.targetFen = payload.fen
                   /\ Len(snapshot.arrows) \in 1..Len(payload.lines)
                   /\ \A i \in 1..Len(snapshot.arrows) :
                         snapshot.arrows[i] = mapLineToBoardArrow(payload.lines[i])
                   /\ DOMAIN snapshot = {"targetFen", "analysisId", "depth", "arrows"}
        ELSE ~AcceptedErrorEvent => arrowState.snapshot = last.pre.snapshot

\* An accepted depth_update shallower than the snapshot the state held, with
\* another list of lines.
C33_Witness ==
    /\ AcceptedDepthEvent
    /\ last.pre.snapshot # None
    /\ last.pre.snapshot[1].depth > last.op.payload.depth
    /\ last.pre.snapshot[1].arrows # arrowState.snapshot[1].arrows
    /\ arrowState.snapshot[1].depth = last.op.payload.depth


\* C35: in every state the reducer reaches when stop_session is dispatched
\* with nextStatus idle or closed only, status is streaming if and only if
\* session is non-null.
C35_StreamingIffSession ==
    (arrowState.status = "streaming") <=> (arrowState.session # None)

\* A stop_session with nextStatus idle has just ended a streaming session.
C35_Witness ==
    /\ last.op.type = "stop_session"
    /\ last.op.nextStatus = "idle"
    /\ last.pre.status = "streaming"
    /\ last.pre.session # None
    /\ arrowState.status = "idle"
    /\ arrowState.session = None


\* C36: in every reachable state a non-null lastError implies status closed,
\* session null and snapshot null, and an operation that found lastError
\* non-null and left it null was a start_session or a
\* reset_for_board_change.
C36_ErrorMeansClosed ==
    /\ arrowState.lastError # None =>
          /\ arrowState.status = "closed"
          /\ arrowState.session = None
          /\ arrowState.snapshot = None
    /\ (last.pre.lastError # None /\ arrowState.lastError = None)
          => last.op.type \in {"start_session", "reset_for_board_change"}

\* An event was ingested on a state that held an error and a stop_session
\* or an ingest left the error where it was.
C36_Witness ==
    /\ last.op.type \in {"ingest_stream_event", "stop_session"}
    /\ last.pre.lastError # None
    /\ Len(last.pre.events) = 1
    /\ arrowState.lastError = last.pre.lastError
    /\ arrowState.status = "closed"


\* The positions in the event log that hold depth-like events.
DepthEventsIn(events) ==
    {i \in 1..Len(events) : isDepthLikeEvent(events[i])}

\* C37: in every reachable state all depth-like events of the event log
\* carry one position and one analysis id, those of the session that logged
\* them (the session the state holds, and the session the last ingest found
\* when it appended to the log); while a session is streaming with a
\* snapshot, the snapshot's position and analysis id are the session's.
C37_LogAndSnapshotMatchSession ==
    LET events == arrowState.events
        logged == DepthEventsIn(events)
    IN /\ \A i, j \in logged :
              /\ events[i].fen = events[j].fen
              /\ events[i].analysis_id = events[j].analysis_id
       /\ arrowState.session # None =>
              \A i \in logged :
                  /\ events[i].fen = arrowState.session[1].targetFen
                  /\ events[i].analysis_id = arrowState.session[1].analysisId
       /\ (last.op.type = "ingest_stream_event" /\ events # last.pre.events) =>
              /\ last.pre.session # None
              /\ \A i \in logged :
                    /\ events[i].fen = last.pre.session[1].targetFen
                    /\ last.pre.session[1].analysisId \in {None, events[i].analysis_id}
       /\ (arrowState.status = "streaming" /\ arrowState.session # None
              /\ arrowState.snapshot # None) =>
              /\ arrowState.snapshot[1].targetFen = arrowState.session[1].targetFen
              /\ Some(arrowState.snapshot[1].analysisId) = arrowState.session[1].analysisId

\* A streaming session has logged two depth-like events and holds a
\* snapshot.
C37_Witness ==
    /\ arrowState.status = "streaming"
    /\ arrowState.session # None
    /\ arrowState.snapshot # None
    /\ Cardinality(DepthEventsIn(arrowState.events)) = 2
    /\ last.op.type = "ingest_stream_event"
    /\ last.pre.session[1].analysisId # None

(***************************************************************************)
(* Claims about the reducer as the page drives it (SpecSession).           *)
(***************************************************************************)
\* C28: an accepted analysis_complete records its snapshot and ends the
\* session (status closed, session null, lastError null, a snapshot built
\* from that event), and every later ingest carrying the token of that
\* session leaves the state unchanged.
C28_CompleteEndsSession ==
    /\ [](AcceptedComplete(last.pre, last.op) =>
            /\ arrowState.status = "closed"
            /\ arrowState.session = None
            /\ arrowState.lastError = None
            /\ arrowState.snapshot # None
            /\ LET snapshot == arrowState.snapshot[1]
                   payload == last.op.payload
               IN /\ snapshot.targetFen = payload.fen
                  /\ snapshot.depth = payload.depth
                  /\ Some(snapshot.analysisId) = payload.analysis_id
                  /\ Len(snapshot.arrows) \in 1..Len(payload.lines)
                  /\ \A i \in 1..Len(snapshot.arrows) :
                        snapshot.arrows[i] = mapLineToBoardArrow(payload.lines[i])
            /\ arrowState.events = Append(last.pre.events,
                                          [last.op.payload EXCEPT !.lines =
                                              SubSeq(@, 1, Len(arrowState.snapshot[1].arrows))]))
    /\ [][(/\ last'.op.type = "ingest_stream_event"
           /\ last'.op.streamToken \in recorded) => arrowState' = arrowState]_vars

\* After an analysis_complete ended the session, a depth_update with the
\* same token, position and analysis id was ingested and changed nothing.
C28_Witness ==
    /\ last.op.type = "ingest_stream_event"
    /\ last.op.streamToken \in recorded
    /\ last.op.payload.type = "depth_update"
    /\ last.pre.session = None
    /\ last.pre.status = "closed"
    /\ last.pre.snapshot # None
    /\ last.op.payload.fen = last.pre.snapshot[1].targetFen
    /\ last.op.payload.analysis_id = Some(last.pre.snapshot[1].analysisId)
    /\ arrowState = last.pre


(***************************************************************************)
(* Claims about the candidate merger (SpecMerge).                          *)
(***************************************************************************)
\* The last report named a stored branch at a lower depth than the stored one.
ShallowerReportFor(e) ==
    /\ last.op.type = "depth_update"
    /\ e.branchUci \in ReportedBranches(last.op)
    /\ stockfishDepthOfEvent(last.op) < e.depth

\* C10: over the merges of one session the depth stored for a branch never
\* decreases, also for a branch that the cap dropped and that is reported
\* again; a report at a lower depth leaves the stored entry as it is.
C10_DepthNeverDecreases ==
    /\ \A i \in 1..Len(candidateLines) :
          candidateLines[i].depth >= recorded[candidateLines[i].branchUci]
    /\ \A i \in 1..Len(last.pre) :
          ShallowerReportFor(last.pre[i])
             => \E j \in 1..Len(candidateLines) : candidateLines[j] = last.pre[i]

\* C10 witness: a report at depth D-1 arrived for a branch stored at depth D.
C10_Witness ==
    \E i \in 1..Len(last.pre) :
        /\ ShallowerReportFor(last.pre[i])
        /\ stockfishDepthOfEvent(last.op) = last.pre[i].depth - 1

\* A branch that the cap had dropped is reported again below its old depth.
DroppedBranchReportedAgain ==
    /\ last.op.type = "depth_update"
    /\ \E b \in ReportedBranches(last.op) :
          /\ b \notin BranchesOf(last.pre)
          /\ last.preRecorded[b] > stockfishDepthOfEvent(last.op)

\* The order of the candidate list, stated on its own: a is better than b
\* when it is deeper, or as deep and of lower rank.
BetterCandidate(a, b) ==
    a.depth > b.depth \/ (a.depth = b.depth /\ a.rank < b.rank)

\* The branches the last merge call had in its map before sorting and slicing.
MergedByLastCall ==
    MergeLines(last.pre, last.op.lines, stockfishDepthOfEvent(last.op))

\* C11: after every mergeCandidateStockfishLines call the list has at most 10
\* entries, one per branch, all taken from the merged branches; no entry is
\* better than one listed before it, and no merged branch that was left out
\* is better than a listed one.
C11_CappedBestFirst ==
    isStockfishDepthLikeEvent(last.op) =>
        LET merged == MergedByLastCall
            listed == {candidateLines[i] : i \in 1..Len(candidateLines)}
            all == {merged[i] : i \in 1..Len(merged)}
        IN /\ Len(candidateLines) <= 10
           /\ Len(candidateLines) = Min(Len(merged), 10)
           /\ listed \subseteq all
           /\ \A i, j \in 1..Len(candidateLines) :
                i < j => /\ ~BetterCandidate(candidateLines[j], candidateLines[i])
                         /\ candidateLines[i].branchUci # candidateLines[j].branchUci
           /\ \A m \in all \ listed, k \in listed : ~BetterCandidate(m, k)

\* The last call merged more than 10 distinct branches of differing depths.
C11_Witness ==
    /\ isStockfishDepthLikeEvent(last.op)
    /\ Len(MergedByLastCall) > 10
    /\ Len(candidateLines) = 10
    /\ candidateLines[1].depth > candidateLines[10].depth


\* The lines of the last report whose branch is b.
LinesFor(b) ==
    {i \in 1..Len(last.op.lines) : BranchOfLine(last.op.lines[i]) = b}

\* What C25 states for line i of the last report, whose branch is stored
\* as `existing`: the entry the branch has after the call.
EntryAfter(existing, i) ==
    LET line == last.op.lines[i]
        depth == stockfishDepthOfEvent(last.op)
    IN IF depth > existing.depth \/ (depth = existing.depth /\ line.rank < existing.rank)
       THEN CandidateOfLine(line, depth)
       ELSE existing

\* C25: a reported line whose branch is already stored replaces the stored
\* entry if and only if the report is strictly deeper, or as deep and of
\* strictly lower rank; otherwise the stored entry is kept unchanged; a line
\* with no first move (empty pv and empty move id) is ignored.
C25_ReplaceOnlyWhenBetter ==
    isStockfishDepthLikeEvent(last.op) =>
        /\ \A k \in 1..Len(last.pre) :
              LET b == last.pre[k].branchUci
              IN Cardinality(LinesFor(b)) = 1 =>
                    /\ \A j \in 1..Len(candidateLines) :
                          candidateLines[j].branchUci = b =>
                              candidateLines[j] =
                                  EntryAfter(last.pre[k], CHOOSE i \in LinesFor(b) : TRUE)
                    /\ ReportedBranches(last.op) \subseteq BranchesOf(last.pre)
                          => b \in BranchesOf(candidateLines)
        /\ "" \notin BranchesOf(candidateLines)
        /\ ReportedBranches(last.op) = {} => candidateLines = last.pre

\* A report as deep as the stored entry and of the same rank, with another
\* continuation, left the stored entry as it was.
C25_Witness ==
    /\ isStockfishDepthLikeEvent(last.op)
    /\ \E k \in 1..Len(last.pre), i \in 1..Len(last.op.lines) :
          /\ LinesFor(last.pre[k].branchUci) = {i}
          /\ stockfishDepthOfEvent(last.op) = last.pre[k].depth
          /\ last.op.lines[i].rank = last.pre[k].rank
          /\ CandidateOfLine(last.op.lines[i], last.pre[k].depth) # last.pre[k]
          /\ \E j \in 1..Len(candidateLines) : candidateLines[j] = last.pre[k]

\* The orderings of a report of n lines.
Orderings(n) ==
    {p \in [1..n -> 1..n] : \A i, j \in 1..n : p[i] = p[j] => i = j}

\* The last report with its lines in the order p.
Reordered(p) ==
    [last.op EXCEPT !.lines = [i \in 1..Len(last.op.lines) |-> last.op.lines[p[i]]]]

\* C26 (as claimed): for a fixed candidate list and report depth, the merge
\* returns the same list for every ordering of the lines inside the report,
\* also when two lines share a branch or two branches share depth and rank.
\* Reports of more than three lines are compared with their reverse only.
C26_ReportOrderIrrelevant ==
    isStockfishDepthLikeEvent(last.op) =>
        LET n == Len(last.op.lines)
        IN IF n <= 3
           THEN \A p \in Orderings(n) :
                    mergeCandidateStockfishLines(last.pre, Reordered(p)) = candidateLines
           ELSE mergeCandidateStockfishLines(last.pre, Reordered([i \in 1..n |-> n + 1 - i]))
                    = candidateLines


(***************************************************************************)
(* Claims about the frame decoder (SpecDecoder).                           *)
(***************************************************************************)
\* C3 (as claimed): however the text is cut into chunks, the frames emitted
\* chunk by chunk are the frames of one call on the whole text.
C3_ChunkingInvariant ==
    wire.read = Len(wire.text)
        => wire.emitted = emitBufferedEvents(wire.text).frames

\* C13: a record block yields a frame exactly when one of its lines begins
\* with `data:`; comment lines, `event:` lines and unprefixed lines alone
\* yield none.
C13_FrameIffDataLine ==
    wire.done =>
        ((wire.parsed # None) <=>
            \E i \in 1..Len(wire.lines) :
                /\ Len(wire.lines[i]) >= 5
                /\ SubSeq(wire.lines[i], 1, 5) = <<"d", "a", "t", "a", ":">>)

\* A parsed block with an event line, an unprefixed line and a data line.
C13_Witness ==
    /\ wire.done
    /\ wire.parsed # None
    /\ \E i, j \in 1..Len(wire.lines) :
        /\ wire.lines[i] = <<"x">>
        /\ wire.lines[j] = EventPrefix \o <<"e">>


\* The records of a byte stream as the wire format defines them, computed
\* line by line: \r\n counts as \n, a line ends at \n, a record ends at an
\* empty line, and what follows the last empty line is not yet a record.
RECURSIVE TerminatedLines(_)
TerminatedLines(s) ==
    LET at == {i \in 1..Len(s) : s[i] = LF}
    IN IF at = {} THEN <<>>
       ELSE LET i == CHOOSE k \in at : \A j \in at : k <= j
            IN <<SubSeq(s, 1, i - 1)>> \o TerminatedLines(SubSeq(s, i + 1, Len(s)))

RECURSIVE RecordsOfLines(_, _)
RecordsOfLines(lines, current) ==
    IF lines = <<>> THEN <<>>
    ELSE IF Head(lines) = <<>>
    THEN <<current>> \o RecordsOfLines(Tail(lines), <<>>)
    ELSE RecordsOfLines(Tail(lines), Append(current, Head(lines)))

IsDataLine(line) == Len(line) >= 5 /\ SubSeq(line, 1, 5) = <<"d", "a", "t", "a", ":">>
DataValue(line) ==
    LET value == SubSeq(line, 6, Len(line))
    IN IF value # <<>> /\ value[1] = " " THEN Tail(value) ELSE value
HasData(record) == \E i \in 1..Len(record) : IsDataLine(record[i])
DataOfRecord(record) ==
    LET ds == SelectSeq(record, IsDataLine)
    IN JoinLines([i \in 1..Len(ds) |-> DataValue(ds[i])])

\* The data of the records of a text that have data, in stream order.
DataRecords(text) ==
    LET records == SelectSeq(RecordsOfLines(TerminatedLines(ReplaceCrLf(text)), <<>>),
                             HasData)
    IN [i \in 1..Len(records) |-> DataOfRecord(records[i])]

NotCR(c) == c # CR
WithoutCR(s) == SelectSeq(s, NotCR)

\* C14: once the whole byte stream is read, onEvent has been called once
\* per record that has data, in stream order: the i-th call carries the
\* data of the i-th such record (carriage returns aside).
C14_FramesInRecordOrder ==
    wire.read = Len(wire.text) =>
        [i \in 1..Len(wire.emitted) |-> WithoutCR(wire.emitted[i].eventData)]
            = [i \in 1..Len(DataRecords(wire.text)) |->
                    WithoutCR(DataRecords(wire.text)[i])]



HasCR(s) == \E i \in 1..Len(s) : s[i] = CR

\* C40: when the response body ends, text left in the transport's buffer
\* that is not terminated by a blank line is never emitted: the end of the
\* body calls onEvent for nothing, the buffer is left as it was, and (for a
\* body without carriage returns) the frames emitted over the whole body are
\* those of the records that a blank line terminates, so a final record
\* without its blank line has produced no call.
C40_UnterminatedTailNeverEmitted ==
    wire.ended =>
        /\ last.op.type = "done"
        /\ wire.emitted = last.pre.emitted
        /\ wire.buffer = last.pre.buffer
        /\ ~HasCR(wire.text) =>
              [i \in 1..Len(wire.emitted) |-> wire.emitted[i].eventData]
                  = DataRecords(wire.text)

\* The body ended after one complete record and a data line that no blank
\* line follows; the data line is still in the buffer.
C40_Witness ==
    /\ wire.ended
    /\ Len(wire.emitted) = 1
    /\ IsDataLine(wire.buffer)
    /\ wire.buffer = DataPrefix \o <<"x">>
    /\ ~HasCR(wire.text)

(***************************************************************************)
(* Claims about the commentary extractor (SpecExtract).                    *)
(***************************************************************************)

\* C15: whatever the text is (empty, prose, an object cut off before its
\* final closing brace, JSON of another shape), the extractor returns null or
\* a record and never throws; as long as the final closing brace of the
\* text's only object has not arrived, it returns null.
C15_NeverThrowsTruncatedIsNull ==
    wire.result # NotParsed =>
        /\ wire.result.outcome \in {"null", "record"}
        /\ (wire.result.outcome = "null") <=> (wire.result.plan = None)
        /\ (wire.input.shape = "object" /\ wire.read < CloseAt(wire.input))
               => wire.result.outcome = "null"

\* The object alone, parsed when all of it but the final brace has arrived.
C15_Witness ==
    /\ wire.input.shape = "object"
    /\ wire.input.wrapper = "bare"
    /\ wire.read = CloseAt(wire.input) - 1
    /\ wire.result.outcome = "null"

\* The text between a fence line tagged json and a closing fence line.
Fenced(text) == Fence \o <<"json", LF>> \o text \o <<LF>> \o Fence

\* C16: a commentary object J yields the same record inside a closed fence as
\* alone, whatever its string values contain.
C16_FenceMakesNoDifference ==
    (/\ wire.input.shape = "object"
     /\ wire.input.wrapper = "bare"
     /\ wire.read = Len(wire.text)
     /\ wire.result.outcome = "record")
        => parseCommentaryStructuredFromText(Fenced(wire.text)) = wire.result

\* The inputs whose five required scalar fields are non-empty strings.
ScalarsGiven(input) ==
    /\ input.title \in {"plain", "ticks", "braces", "quotes"}
    /\ input.risk = "given"

\* How many non-empty bullets each plan of the menu holds.
BulletsSupplied(name) ==
    CASE name \in {"two", "third", "text_two"} -> 2
      [] name = "text_dash" -> 3
      [] name \in {"one", "second_empty", "not_text", "text_one"} -> 1
      [] name = "missing" -> 0

NonBlank(s) == \E i \in 1..Len(s) : ~IsSpace(s[i])

\* C17: a record is returned only for a candidate whose five required scalar
\* fields are non-empty strings and whose plans both supply two non-empty
\* bullets; a returned record has exactly two non-empty bullets per side; a
\* candidate that lacks the second bullet of either plan is rejected.
C17_AcceptedOnlyWithFieldsAndBullets ==
    wire.result.outcome = "record" =>
        /\ wire.input.shape = "object"
        /\ ScalarsGiven(wire.input)
        /\ BulletsSupplied(wire.input.white) >= 2
        /\ BulletsSupplied(wire.input.black) >= 2
        /\ LET plan == wire.result.plan[1]
           IN /\ \A side \in {plan.white_plan, plan.black_plan} :
                     Len(side) = 2 /\ NonBlank(side[1]) /\ NonBlank(side[2])
              /\ \A field \in {plan.position_plan_title, plan.advantage_summary,
                               plan.best_move_san, plan.best_move_reason,
                               plan.danger_to_watch} : NonBlank(field)

\* A record returned for a white plan of three entries, the second one empty.
C17_Witness ==
    /\ wire.result.outcome = "record"
    /\ wire.input.white = "third"
    /\ wire.result.plan[1].white_plan = <<<<"Develop">>, <<"Castle">>>>



\* The text the last parse was given.
TextSoFar == SubSeq(wire.text, 1, wire.read)

\* The object stands between prose.
InProse(input) ==
    input.shape = "object" /\ input.wrapper \in {"prose", QuotedProse}

StaleEngineCallback ==
    /\ last'.op.type \in {"onEvent", "onError", "onClose"}
    /\ handles[last'.h].kind = "engine"
    /\ handles[last'.h].tok # epoch

\* C1: a callback (onEvent, onError, onClose) that an engine transport
\* delivers after its token has been superseded, in particular after
\* startStream has begun a new session, changes nothing: the reducer state,
\* the candidate lines, the commentary state, both counters and both handle
\* references are as before, and no transport is opened.
C1_StaleCallbackChangesNothing ==
    [][StaleEngineCallback =>
        /\ UNCHANGED <<arrowState, candidateLines, commentary, epoch, cepoch,
                       streamRef, commentaryStreamRef>>
        /\ Len(handles') = Len(handles)]_vars

\* A new session is streaming on its own transport, and the transport of
\* the session before it has just handed a frame to onEvent.
C1_Witness ==
    /\ last.op.type = "onEvent"
    /\ handles[last.h].kind = "engine"
    /\ handles[last.h].tok < epoch
    /\ streamRef > last.h
    /\ handles[streamRef].tok = epoch
    /\ arrowState.status = "streaming"
    /\ arrowState.session # None
    /\ arrowState.session[1].streamToken = epoch

\* C2: once stopStream has dispatched stop_session with token A, no frame
\* that an engine transport carrying token A hands to onEvent afterwards
\* changes the reducer state, whatever starts, stops and frames follow.
C2_StoppedTokenNeverIngests ==
    [][(/\ last'.op.type = "onEvent"
        /\ handles[last'.h].kind = "engine"
        /\ handles[last'.h].tok \in stopped) => arrowState' = arrowState]_vars

\* A transport whose token stopStream has stopped has just handed a frame
\* to onEvent, and the page has started a session since.
C2_Witness ==
    /\ last.op.type = "onEvent"
    /\ handles[last.h].kind = "engine"
    /\ handles[last.h].tok \in stopped
    /\ arrowState.session # None
    /\ arrowState.session[1].streamToken > handles[last.h].tok

\* C4: once close() has been called on a transport, run() of that transport
\* calls none of its callbacks any more.
C4_NoCallbackAfterClose ==
    \A h \in 1..Len(handles) : ~handles[h].late

\* C5: over the life of a transport at most one of onError and onClose is
\* called.
C5_OneTerminalCallback ==
    \A h \in 1..Len(handles) : ~(handles[h].nError > 0 /\ handles[h].nClose > 0)

\* The step being taken hands the live engine transport's frame to onEvent,
\* and the frame is a depth-like payload for another position than the
\* session's, or with an analysis id other than the pinned one.
ForeignEventOnCurrentTransport ==
    /\ last'.op.type = "onEvent"
    /\ handles[last'.h].kind = "engine"
    /\ handles[last'.h].tok = epoch
    /\ arrowState.session # None
    /\ arrowState.session[1].streamToken = epoch
    /\ isStockfishDepthLikeEvent(last'.payload)
    /\ \/ last'.payload.fen # arrowState.session[1].targetFen
       \/ AnalysisIdConflicts(arrowState.session[1], last'.payload)

\* C7: a depth-like event on the current engine transport that names another
\* position, or a conflicting analysis id, is ignored by the whole page: the
\* reducer state and the candidate lines stay as they are and no commentary
\* stream is started or restarted.
C7_ForeignEventIgnoredByPage ==
    [][ForeignEventOnCurrentTransport =>
        /\ arrowState' = arrowState
        /\ candidateLines' = candidateLines
        /\ commentary' = commentary
        /\ Len(handles') = Len(handles)]_vars


\* Transport h got the abort as the outcome of its fetch: close() was called
\* while the response had not arrived.
ClosedBeforeResponse(h) ==
    /\ handles[h].pc = "fetch"
    /\ handles[h].aborted
    /\ last'.op.type = "resume"
    /\ last'.h = h
    /\ last'.payload = Some("abort")

\* C18: close() is idempotent and safe at any time.  On a closed handle it
\* changes nothing (no abort, no callback), and calling it twice is the same
\* as calling it once; when close() was called before the response arrived,
\* run() ends without onOpen, onEvent or onError, and nothing is invoked for
\* that handle afterwards.
C18_CloseIdempotentAndCancels ==
    /\ [](\A h \in 1..Len(handles) :
            /\ handles[h].closed => close(Page, h) = Page
            /\ close(close(Page, h), h) = close(Page, h))
    /\ [][\A h \in 1..Len(handles) :
            /\ ClosedBeforeResponse(h) =>
                    /\ handles'[h] = [handles[h] EXCEPT !.pc = "done"]
                    /\ ~handles'[h].opened
                    /\ ~handles'[h].gotEvent
                    /\ handles'[h].nError = 0
            /\ (handles[h].aborted /\ handles[h].pc = "done") =>
                    handles'[h] = handles[h]]_vars

\* A transport closed before its response arrived has ended in silence, and
\* close() has been called again since (by the next Start or Stop).
C18_Witness ==
    \E h \in 1..Len(handles) :
        /\ last.op.type = "resume"
        /\ last.h = h
        /\ last.payload = Some("abort")
        /\ handles[h].pc = "done"
        /\ handles[h].aborted
        /\ ~handles[h].opened
        /\ ~handles[h].gotEvent
        /\ handles[h].nError = 0
        /\ handles[h].nClose = 1

\* C19: a failure of the request or of a read that happens after close() was
\* called on the handle is never delivered through onError.
C19_NoErrorAfterClose ==
    [][\A h \in 1..Len(handles) :
            handles[h].aborted =>
                /\ handles'[h].nError = handles[h].nError
                /\ handles'[h].error = handles[h].error]_vars

\* The request of a closed transport failed with an error other than the
\* abort, and onError was not called.
C19_Witness ==
    \E h \in 1..Len(handles) :
        /\ last.op.type = "resume"
        /\ last.h = h
        /\ last.payload = Some("reject")
        /\ handles[h].aborted
        /\ handles[h].pc = "done"
        /\ handles[h].nError = 0

\* The last step continued run() after the body of a non-success response.
ErrorBodyRead ==
    /\ last.op.type \in {"resume", "onError"}
    /\ last.payload \in {Some("text"), Some("blank"), Some("unreadable")}

\* The statement of C20 without a condition on close(): after the body of a
\* non-success response has been read, onError has been called once.
C20_ErrorStatusAlwaysReported ==
    ErrorBodyRead => handles[last.h].nError = 1

\* C20: when the response has a non-success status and close() has not been
\* called by the time its body has been read, onError is called once with
\* `Stream request failed` and the body, or the status line when the body is
\* blank or unreadable; such a handle never gets onOpen or onEvent.
C20_ErrorStatusReportedOnce ==
    /\ (ErrorBodyRead /\ last.op.type = "onError") =>
            /\ handles[last.h].nError = 1
            /\ handles[last.h].error =
                   Some(IF last.payload = Some("text") THEN FailedWithBody
                        ELSE FailedWithStatus)
    /\ \A h \in 1..Len(handles) :
            /\ handles[h].pc = "errbody" => ~handles[h].opened /\ ~handles[h].gotEvent
            /\ handles[h].error \in {Some(FailedWithBody), Some(FailedWithStatus)} =>
                    /\ handles[h].nError = 1
                    /\ handles[h].pc = "done"
                    /\ ~handles[h].opened
                    /\ ~handles[h].gotEvent

\* onError has been called with the status line of a response whose body
\* could not be read.
C20_Witness ==
    /\ last.op.type = "onError"
    /\ last.payload = Some("unreadable")
    /\ handles[last.h].error = Some(FailedWithStatus)
    /\ handles[last.h].nError = 1

\* The last step was a call of startStream with an invalid position or with
\* no access token in localStorage.
StartRefused ==
    /\ last'.op.type = "startStream"
    /\ last'.payload[1].fenError \/ ~last'.payload[1].hasToken

\* C24: when startStream is called with an invalid position or with no
\* access token, the analysis state becomes closed with lastError the
\* failure message and with no session and no snapshot; no transport is
\* opened and no start_session is issued.
C24_PreconditionFailureIsLocal ==
    [][StartRefused =>
        /\ arrowState' =
              [status |-> "closed", session |-> None, snapshot |-> None,
               events |-> <<>>,
               lastError |-> Some(IF last'.payload[1].fenError THEN InvalidFen
                                  ELSE MissingAccessToken)]
        /\ Len(handles') = Len(handles)
        /\ streamRef' = 0
        /\ commentaryStreamRef' = 0
        /\ \A h \in 1..Len(handles') : handles'[h].closed]_vars

\* startStream was called for a valid position with no access token, after
\* an earlier session: the state is closed with the message, and the only
\* transport is the one of the earlier session.
C24_Witness ==
    /\ last.op.type = "startStream"
    /\ ~last.payload[1].fenError
    /\ ~last.payload[1].hasToken
    /\ arrowState.status = "closed"
    /\ arrowState.lastError = Some(MissingAccessToken)
    /\ Len(handles) = 1
    /\ streamRef = 0


\* C21: when the body of the response ends and close() has not been called
\* on the handle, onClose is called exactly once; whatever the order of the
\* end of the body and of the calls of close(), no handle ever gets onClose
\* more than once.
C21_OnCloseOnce ==
    /\ [](\A h \in 1..Len(handles) : handles[h].nClose <= 1)
    /\ [][\A h \in 1..Len(handles) :
            (/\ last'.op.type \in {"resume", "onClose"}
             /\ last'.h = h
             /\ last'.payload = Some("eof")
             /\ ~handles[h].aborted) =>
                /\ handles[h].nClose = 0
                /\ handles'[h].nClose = 1
                /\ last'.op.type = "onClose"]_vars

\* The body ended on a handle that close() was never called on, and onClose
\* has been called once.
C21_Witness ==
    /\ last.op.type = "onClose"
    /\ last.payload = Some("eof")
    /\ ~handles[last.h].aborted
    /\ handles[last.h].nClose = 1

\* The engine transport whose token is the live counter saw the end of its
\* body before any close().
EngineStreamEnded(h) ==
    /\ last'.op.type = "onClose"
    /\ last'.h = h
    /\ handles[h].kind = "engine"
    /\ handles[h].tok = epoch

\* C22: when the engine stream of the current session ends without an
\* analysis_complete or analysis_error event having been received, the
\* analysis status becomes closed and lastError stays null.
C22_StreamEndIsNotAnError ==
    [][\A h \in 1..Len(handles) :
            EngineStreamEnded(h) =>
                /\ arrowState.status = "streaming"
                /\ arrowState.lastError = None
                /\ arrowState'.status = "closed"
                /\ arrowState'.session = None
                /\ arrowState'.lastError = None
                /\ arrowState'.snapshot = arrowState.snapshot]_vars

\* The stream of the current session ended after a depth update had been
\* accepted: the status is closed, the snapshot is kept, no error is set.
C22_Witness ==
    /\ last.op.type = "onClose"
    /\ handles[last.h].kind = "engine"
    /\ handles[last.h].tok = epoch
    /\ arrowState.status = "closed"
    /\ arrowState.snapshot # None
    /\ arrowState.lastError = None

\* The step is a call of startStream that issued start_session: it opened
\* the engine transport of the new session.
SessionStarted ==
    /\ last'.op.type = "startStream"
    /\ Len(handles') = Len(handles) + 1

\* C30: the engine epoch counter never decreases, and every start_session
\* issued by startStream carries a token strictly greater than the token of
\* every earlier session, so no two sessions share a token.
C30_TokensIncrease ==
    [][/\ epoch' >= epoch
       /\ SessionStarted =>
            LET token == arrowState'.session[1].streamToken
            IN /\ token = epoch'
               /\ token > epoch
               /\ handles'[Len(handles')].kind = "engine"
               /\ handles'[Len(handles')].tok = token
               /\ arrowState.session # None => arrowState.session[1].streamToken < token
               /\ \A h \in 1..Len(handles) :
                    handles[h].kind = "engine" => handles[h].tok < token]_vars

\* A second session has been started; its token is greater than the first's.
C30_Witness ==
    /\ last.op.type = "startStream"
    /\ Len(handles) = 2
    /\ handles[1].kind = "engine"
    /\ handles[2].kind = "engine"
    /\ arrowState.session # None
    /\ arrowState.session[1].streamToken = handles[2].tok
    /\ handles[1].tok < handles[2].tok



\* The engine transports that close() has not been called on and whose run()
\* has not closed them.
UnclosedEngineHandles ==
    {h \in 1..Len(handles) : handles[h].kind = "engine" /\ ~handles[h].closed}

\* The session the reducer holds, if any, carries the live counter.
SessionIsCurrent ==
    arrowState.session # None => arrowState.session[1].streamToken = epoch

\* C31 (as claimed): at every point at most one engine session is current: a
\* session held by the reducer carries the live engine counter, at most one
\* engine transport is un-closed, and every engine transport other than the
\* one streamRef refers to is closed and carries a stale token.
C31_OneCurrentSession ==
    /\ SessionIsCurrent
    /\ Cardinality(UnclosedEngineHandles) <= 1
    /\ \A h \in 1..Len(handles) :
          (handles[h].kind = "engine" /\ h # streamRef)
              => handles[h].closed /\ handles[h].tok < epoch


\* C34 (as claimed): when a session has been invalidated (stopped by the
\* user, superseded by a new start, ended by a terminal event) or the target
\* position has changed, the entities of that session are discarded: while
\* the reducer holds no session, the state holds no snapshot, no logged event
\* and no merged candidate line.
C34_InvalidatedSessionDiscarded ==
    arrowState.session = None =>
        /\ arrowState.snapshot = None
        /\ arrowState.events = <<>>
        /\ candidateLines = <<>>


\* The step being taken hands the engine onEvent handler an analysis_complete
\* or an analysis_error.
TerminalEventProcessed ==
    /\ last'.op.type = "onEvent"
    /\ handles[last'.h].kind = "engine"
    /\ last'.payload.type \in {"analysis_complete", "analysis_error"}

\* The step being taken hands onEvent a frame of an engine transport whose
\* token is stale.
FrameAfterTerminalEvent ==
    /\ last'.op.type = "onEvent"
    /\ handles[last'.h].kind = "engine"
    /\ handles[last'.h].tok < epoch

\* C38: after the engine onEvent handler has processed an analysis_complete
\* or analysis_error, the transport's token is stale; a stale token stays
\* stale; and every frame a transport with a stale token delivers, frames of
\* the same chunk included, changes neither the reducer state nor the merged
\* candidate lines nor the commentary stream (its state, counter and
\* transport).
C38_FramesAfterTerminalDropped ==
    [][/\ TerminalEventProcessed => handles'[last'.h].tok < epoch'
       /\ \A h \in 1..Len(handles) :
            handles[h].tok < epoch => handles'[h].tok < epoch'
       /\ FrameAfterTerminalEvent =>
            /\ UNCHANGED <<arrowState, candidateLines, commentary, cepoch,
                           commentaryStreamRef, epoch, streamRef>>
            /\ Len(handles') = Len(handles)]_vars

\* The only engine transport delivered an analysis_complete that ended the
\* session (the state is closed and keeps the snapshot of depth 18, which
\* only an accepted analysis_complete leaves behind), and then, from the same
\* chunk, a depth_update.
C38_Witness ==
    /\ last.op.type = "onEvent"
    /\ handles[last.h].kind = "engine"
    /\ handles[last.h].tok < epoch
    /\ handles[last.h].late
    /\ last.payload.type = "depth_update"
    /\ \A g \in 1..Len(handles) : g # last.h => handles[g].kind = "commentary"
    /\ arrowState.status = "closed"
    /\ arrowState.snapshot # None
    /\ arrowState.snapshot[1].depth = COMMENTARY_REFRESH_DEPTH


(***************************************************************************)
(* Claims about the commentary stream (SpecCommentary).                    *)
(***************************************************************************)
\* The commentary transports that close() has not been called on and whose
\* run() has not closed them.
UnclosedCommentaryHandles ==
    {h \in 1..Len(handles) : handles[h].kind = "commentary" /\ ~handles[h].closed}

\* The step being taken is a callback of a commentary transport that is not
\* the one commentaryStreamRef refers to: the refresh at depth 18,
\* stopStream or a new startStream has put it aside (or it has ended
\* itself).
SupersededCommentaryCallback ==
    /\ last'.op.type \in {"onEvent", "onError", "onClose"}
    /\ handles[last'.h].kind = "commentary"
    /\ last'.h # commentaryStreamRef

\* C39: at any time at most one commentary transport is un-closed, and a
\* callback delivered by a commentary stream that has been superseded (by
\* the refresh at depth 18, by stopStream or by a new startStream) changes
\* neither the commentary text nor its status, error or structured record.
C39_OneCommentaryStream ==
    /\ [](Cardinality(UnclosedCommentaryHandles) <= 1)
    /\ [](\A h \in 1..Len(handles) :
            (handles[h].kind = "commentary" /\ h # commentaryStreamRef)
                => handles[h].closed /\ handles[h].tok # cepoch)
    /\ [][SupersededCommentaryCallback => commentary' = commentary]_vars

\* The commentary stream was refreshed at depth 18, and the transport of the
\* first commentary stream has just handed a text delta to onEvent: the text
\* is still that of the refreshed stream.
C39_Witness ==
    /\ last.op.type = "onEvent"
    /\ handles[last.h].kind = "commentary"
    /\ last.payload.type = "commentary_text_delta"
    /\ commentaryStreamRef > last.h
    /\ handles[commentaryStreamRef].kind = "commentary"
    /\ ~handles[commentaryStreamRef].closed
    /\ handles[last.h].closed
    /\ commentary.status = "streaming"
    /\ commentary.rawText = ""

====
